---- MODULE Spec2Model ----
(***************************************************************************)
(* Semantic-aware weighted bipartite matching evaluator                    *)
(* (src/src/utils/standardSemanticMetrics.ts).                             *)
(*                                                                         *)
(* A JavaScript string is a tuple of atoms.  An atom is a TLA+ string that *)
(* stands for one character or for a run of letters that no regular        *)
(* expression or lexer of the program splits ("gold", "json", ...).        *)
(* Weights are kept in quarters: 1.0 is 4, 0.75 is 3, 0.5 is 2, so that    *)
(* TPw, FPw and FNw are integers (all of them are exact in binary floating *)
(* point, no rounding is lost).                                            *)
(***************************************************************************)
EXTENDS Integers, Sequences, FiniteSets, TLC

(***************************************************************************)
(* Bounds of the explored inputs.                                          *)
(***************************************************************************)
\* text blocks of one call, and items of one kind over all its blocks
MaxBlocks == 2
MaxItems == 3
\* largest maxRetries argument of retryWithBackoff
MaxRetriesArg == 3

(***************************************************************************)
(* Strings.                                                                *)
(***************************************************************************)
Whitespace == {" ", "\n"}

\* String.prototype.toLowerCase, atom by atom
toLowerCase(str) ==
  [i \in 1..Len(str) |->
     CASE str[i] = "A" -> "a"
       [] str[i] = "B" -> "b"
       [] str[i] = "C" -> "c"
       [] str[i] = "D" -> "d"
       [] str[i] = "Rain" -> "rain"
       [] OTHER -> str[i]]

RECURSIVE trimStart(_)
trimStart(str) ==
  IF str = <<>> THEN <<>>
  ELSE IF Head(str) \in Whitespace THEN trimStart(Tail(str)) ELSE str

RECURSIVE trimEnd(_)
trimEnd(str) ==
  IF str = <<>> THEN <<>>
  ELSE IF str[Len(str)] \in Whitespace
       THEN trimEnd(SubSeq(str, 1, Len(str) - 1)) ELSE str

\* String.prototype.trim
trim(str) == trimEnd(trimStart(str))

\* normalizeString: str.toLowerCase().trim()
normalizeString(str) == trim(toLowerCase(str))

\* smallest index from `from` on at which atom c occurs, 0 if none
RECURSIVE indexOfFrom(_, _, _)
indexOfFrom(str, c, from) ==
  IF from > Len(str) THEN 0
  ELSE IF str[from] = c THEN from ELSE indexOfFrom(str, c, from + 1)

includes(str, c) == indexOfFrom(str, c, 1) # 0

(***************************************************************************)
(* JSON values.  Every value is a record of the same shape:                *)
(*   t      "null" | "bool" | "num" | "str" | "arr" | "obj"                *)
(*   s      the atoms of a string or number                                *)
(*   keys   the keys of an object, in source order                         *)
(*   items  the elements of an array, or the values of an object           *)
(***************************************************************************)
JNull == [t |-> "null", s |-> <<>>, keys |-> <<>>, items |-> <<>>]
JBool(b) == [t |-> "bool", s |-> <<b>>, keys |-> <<>>, items |-> <<>>]
JNum(n) == [t |-> "num", s |-> <<n>>, keys |-> <<>>, items |-> <<>>]
JStr(str) == [t |-> "str", s |-> str, keys |-> <<>>, items |-> <<>>]
JArr(xs) == [t |-> "arr", s |-> <<>>, keys |-> <<>>, items |-> xs]
JObj(ks, vs) == [t |-> "obj", s |-> <<>>, keys |-> ks, items |-> vs]
\* the value `undefined` (a missing property)
Undefined == [t |-> "undefined", s |-> <<>>, keys |-> <<>>, items |-> <<>>]

Digits == {"0", "1", "5", "9"}

RECURSIVE skipWs(_, _)
skipWs(txt, i) ==
  IF i <= Len(txt) /\ txt[i] \in Whitespace THEN skipWs(txt, i + 1) ELSE i

Fail == [ok |-> FALSE, val |-> JNull, pos |-> 0]
Parsed(v, p) == [ok |-> TRUE, val |-> v, pos |-> p]

(***************************************************************************)
(* JSON.parse, by recursive descent over the atoms.  parseValue(txt, i)    *)
(* reads one value starting at position i and answers the position after   *)
(* it; a SyntaxError is ok = FALSE.                                        *)
(***************************************************************************)
RECURSIVE parseValue(_, _)
RECURSIVE parseElements(_, _, _)
RECURSIVE parseMembers(_, _, _, _)

\* a string literal: opening quote at i, atoms up to the next quote
parseStringAt(txt, i) ==
  LET close == indexOfFrom(txt, "\"", i + 1)
  IN  IF i > Len(txt) \/ txt[i] # "\"" \/ close = 0 THEN Fail
      ELSE Parsed(JStr(SubSeq(txt, i + 1, close - 1)), close + 1)

\* after "[" or after ",": the elements read so far are acc
parseElements(txt, i, acc) ==
  LET v == parseValue(txt, i)
      j == skipWs(txt, v.pos)
  IN  IF ~v.ok \/ j > Len(txt) THEN Fail
      ELSE IF txt[j] = "," THEN parseElements(txt, j + 1, Append(acc, v.val))
      ELSE IF txt[j] = "]" THEN Parsed(JArr(Append(acc, v.val)), j + 1)
      ELSE Fail

\* after "{" or after ",": the members read so far are ks, vs
parseMembers(txt, i, ks, vs) ==
  LET k == parseStringAt(txt, skipWs(txt, i))
      c == skipWs(txt, k.pos)
  IN  IF ~k.ok \/ c > Len(txt) \/ txt[c] # ":" THEN Fail
      ELSE LET v == parseValue(txt, c + 1)
               j == skipWs(txt, v.pos)
           IN  IF ~v.ok \/ j > Len(txt) THEN Fail
               ELSE IF txt[j] = ","
                    THEN parseMembers(txt, j + 1, Append(ks, k.val.s),
                                      Append(vs, v.val))
               ELSE IF txt[j] = "}"
                    THEN Parsed(JObj(Append(ks, k.val.s), Append(vs, v.val)),
                                j + 1)
               ELSE Fail

parseValue(txt, i0) ==
  LET i == skipWs(txt, i0)
  IN  IF i > Len(txt) THEN Fail
      ELSE IF txt[i] = "null" THEN Parsed(JNull, i + 1)
      ELSE IF txt[i] \in {"true", "false"} THEN Parsed(JBool(txt[i]), i + 1)
      ELSE IF txt[i] \in Digits THEN Parsed(JNum(txt[i]), i + 1)
      ELSE IF txt[i] = "\"" THEN parseStringAt(txt, i)
      ELSE IF txt[i] = "["
           THEN LET j == skipWs(txt, i + 1)
                IN  IF j <= Len(txt) /\ txt[j] = "]"
                    THEN Parsed(JArr(<<>>), j + 1)
                    ELSE parseElements(txt, i + 1, <<>>)
      ELSE IF txt[i] = "{"
           THEN LET j == skipWs(txt, i + 1)
                IN  IF j <= Len(txt) /\ txt[j] = "}"
                    THEN Parsed(JObj(<<>>, <<>>), j + 1)
                    ELSE parseMembers(txt, i + 1, <<>>, <<>>)
      ELSE Fail

\* JSON.parse(txt): one value, then only white space
JSONParse(txt) ==
  LET v == parseValue(txt, 1)
  IN  IF v.ok /\ skipWs(txt, v.pos) = Len(txt) + 1 THEN v ELSE Fail

\* property access value.key on a parsed value other than null: the last
\* member of that name for an object, undefined otherwise
RECURSIVE lastIndexOfKey(_, _, _)
lastIndexOfKey(ks, key, i) ==
  IF i = 0 THEN 0
  ELSE IF ks[i] = key THEN i ELSE lastIndexOfKey(ks, key, i - 1)

getProperty(value, key) ==
  LET i == lastIndexOfKey(value.keys, key, Len(value.keys))
  IN  IF value.t = "obj" /\ i # 0 THEN value.items[i] ELSE Undefined


(***************************************************************************)
(* Response parser for the judge's output.                                 *)
(***************************************************************************)
\* the atom for three backticks
Fence == "FENCE"
PrefixPhrases == {"Here is", "Here's", "The output is", "Output:", "Result:",
                  "The result is", "Below is"}

\* smallest index from `from` on whose atom is in the set cs, 0 if none
RECURSIVE indexOfAnyFrom(_, _, _)
indexOfAnyFrom(str, cs, from) ==
  IF from > Len(str) THEN 0
  ELSE IF str[from] \in cs THEN from ELSE indexOfAnyFrom(str, cs, from + 1)

NoMatch == [found |-> FALSE, text |-> <<>>]
Match(text) == [found |-> TRUE, text |-> text]

\* the fenced code block pattern FENCE(?:json)?\s*([\s\S]*?)\s*FENCE : group 1
codeBlockMatch(response) ==
  LET open == indexOfFrom(response, Fence, 1)
      start == IF open # 0 /\ open < Len(response) /\ response[open + 1] = "json"
               THEN open + 2 ELSE open + 1
      close == IF open = 0 THEN 0 ELSE indexOfFrom(response, Fence, start)
  IN  IF open = 0 \/ close = 0 THEN NoMatch
      ELSE Match(trim(SubSeq(response, start, close - 1)))

\* /(\{[\s\S]*?\})/ searched from position `from`: group 1, the text from
\* the first opening brace to the first closing brace after it
objectMatchFrom(response, from) ==
  LET open == indexOfFrom(response, "{", from)
      close == IF open = 0 THEN 0 ELSE indexOfFrom(response, "}", open + 1)
  IN  IF open = 0 \/ close = 0 THEN NoMatch
      ELSE Match(SubSeq(response, open, close))

\* /(?:Here is|...)[\s\S]*?(\{[\s\S]*?\})/i : group 1
prefixMatch(response) ==
  LET at == indexOfAnyFrom(response, PrefixPhrases, 1)
  IN  IF at = 0 THEN NoMatch ELSE objectMatchFrom(response, at + 1)

\* extractJsonFromResponse: the extracted text, or found = FALSE for null
extractJsonFromResponse(response) ==
  LET block == codeBlockMatch(response)
      object == objectMatchFrom(response, 1)
      prefixed == prefixMatch(response)
  IN  IF block.found THEN Match(trim(block.text))
      ELSE IF object.found /\ includes(object.text, "\"") THEN Match(trim(object.text))
      ELSE IF prefixed.found THEN Match(trim(prefixed.text))
      ELSE NoMatch

EmptyPairs == [semanticPairs |-> <<>>, partialPairs |-> <<>>]

\* Array.isArray(x) ? x : []
arrayOrEmpty(x) == IF x.t = "arr" THEN x.items ELSE <<>>

\* the JSON.parse attempts of parseSemanticEvaluationResponse: the extracted
\* text first, the whole response when that is missing, empty or no JSON
parseJudgeJson(response) ==
  LET extractedJson == extractJsonFromResponse(response)
      first == IF extractedJson.found /\ extractedJson.text # <<>>
               THEN JSONParse(extractedJson.text) ELSE Fail
  IN  IF first.ok THEN first ELSE JSONParse(response)

\* parseSemanticEvaluationResponse: the pairs are the array elements as
\* parsed, of whatever shape
parseSemanticEvaluationResponse(response) ==
  LET jsonParsed == parseJudgeJson(response)
  IN  IF ~jsonParsed.ok THEN EmptyPairs
      ELSE IF jsonParsed.val.t \in {"obj", "arr"}
           THEN [semanticPairs |->
                   arrayOrEmpty(getProperty(jsonParsed.val, <<"semantic_match_pairs">>)),
                 partialPairs |->
                   arrayOrEmpty(getProperty(jsonParsed.val, <<"partial_match_pairs">>))]
      ELSE EmptyPairs

(***************************************************************************)
(* Exact-match prefilter.  Positions are 1-based here (0-based in the      *)
(* source).                                                                *)
(***************************************************************************)
WExact == 4
WSemantic == 3
WPartial == 2

Range(f) == {f[i] : i \in DOMAIN f}

\* firstExactPred that stops at the first equal prediction and gives up
\* when that one is matched already
RECURSIVE firstExactPredGivingUp(_, _, _, _)
firstExactPredGivingUp(predictions, gold, matchedPred, p) ==
  IF p > Len(predictions) THEN 0
  ELSE IF normalizeString(gold) = normalizeString(predictions[p])
       THEN IF p \notin matchedPred THEN p ELSE 0
       ELSE firstExactPredGivingUp(predictions, gold, matchedPred, p + 1)

\* firstExactPred that takes the last equal prediction instead of the first
RECURSIVE lastExactPred(_, _, _, _)
lastExactPred(predictions, gold, matchedPred, p) ==
  IF p > Len(predictions) THEN 0
  ELSE LET later == lastExactPred(predictions, gold, matchedPred, p + 1)
       IN  IF later # 0 THEN later
           ELSE IF p \notin matchedPred
                   /\ normalizeString(gold) = normalizeString(predictions[p])
                THEN p ELSE 0

\* the inner loop of calculateExactMatches: the first predicted position
\* from p on that is not yet matched and equals the gold item, 0 if none
RECURSIVE firstExactPred(_, _, _, _)
firstExactPred(predictions, gold, matchedPred, p) ==
  IF p > Len(predictions) THEN 0
  ELSE IF p \notin matchedPred
          /\ normalizeString(gold) = normalizeString(predictions[p])
       THEN p
       ELSE firstExactPred(predictions, gold, matchedPred, p + 1)

\* the outer loop of calculateExactMatches from gold position g on
RECURSIVE exactLoop(_, _, _, _)
exactLoop(predictions, goldData, g, exactMatches) ==
  IF g > Len(goldData) THEN exactMatches
  ELSE LET matchedPred == {exactMatches[k].predIndex : k \in DOMAIN exactMatches}
           p == firstExactPred(predictions, goldData[g], matchedPred, 1)
       IN  IF p = 0 THEN exactLoop(predictions, goldData, g + 1, exactMatches)
           ELSE exactLoop(predictions, goldData, g + 1,
                  Append(exactMatches,
                         [goldIndex |-> g, predIndex |-> p,
                          weight |-> WExact, type |-> "exact"]))

\* unmatchedFrom without the test of the matched set: every position
RECURSIVE everyPositionFrom(_, _, _)
everyPositionFrom(i, n, matched) ==
  IF i > n THEN <<>> ELSE <<i>> \o everyPositionFrom(i + 1, n, matched)

\* the positions 1..n that are not in the set matched, in ascending order
RECURSIVE unmatchedFrom(_, _, _)
unmatchedFrom(i, n, matched) ==
  IF i > n THEN <<>>
  ELSE IF i \in matched THEN unmatchedFrom(i + 1, n, matched)
       ELSE <<i>> \o unmatchedFrom(i + 1, n, matched)

calculateExactMatches(predictions, goldData) ==
  LET exactMatches == exactLoop(predictions, goldData, 1, <<>>)
      goldIndices == unmatchedFrom(1, Len(goldData),
                       {exactMatches[k].goldIndex : k \in DOMAIN exactMatches})
      predIndices == unmatchedFrom(1, Len(predictions),
                       {exactMatches[k].predIndex : k \in DOMAIN exactMatches})
  IN  [exactMatches |-> exactMatches,
       unmatchedGold |-> [k \in DOMAIN goldIndices |-> goldData[goldIndices[k]]],
       unmatchedPredicted |-> [k \in DOMAIN predIndices |-> predictions[predIndices[k]]],
       goldIndices |-> goldIndices,
       predIndices |-> predIndices]

\* findIndex that returns the last position that fits instead of the first
RECURSIVE findLastIndex(_, _, _, _)
findLastIndex(indices, all, text, k) ==
  IF k > Len(indices) THEN 0
  ELSE LET later == findLastIndex(indices, all, text, k + 1)
       IN  IF later # 0 THEN later
           ELSE IF normalizeString(all[indices[k]]) = normalizeString(text) THEN k
           ELSE 0

(***************************************************************************)
(* Weight matrix builder.                                                  *)
(***************************************************************************)
\* Array.prototype.findIndex over the unmatched positions: the first k with
\* normalizeString(all[indices[k]]) = normalizeString(text), 0 if none
RECURSIVE findIndex(_, _, _, _)
findIndex(indices, all, text, k) ==
  IF k > Len(indices) THEN 0
  ELSE IF normalizeString(all[indices[k]]) = normalizeString(text) THEN k
       ELSE findIndex(indices, all, text, k + 1)

\* the callback of findIndex calls normalizeString(pair.gold) on the first
\* element it visits: a TypeError unless the pair is an object (not null)
\* and the field is a string
raisesTypeError(pair, field, indices) ==
  /\ indices # <<>>
  /\ \/ pair.t = "null"
     \/ getProperty(pair, <<field>>).t # "str"

\* resolvePair with the texts looked up among all items instead of the
\* unmatched ones
resolvePairAnyItem(pair, allPredictions, allGoldData, unmatchedGoldIndices, unmatchedPredIndices) ==
  IF \/ raisesTypeError(pair, "gold", unmatchedGoldIndices)
     \/ raisesTypeError(pair, "predicted", unmatchedPredIndices)
  THEN [throws |-> TRUE, found |-> FALSE, g |-> 0, p |-> 0]
  ELSE LET allGold == [k \in DOMAIN allGoldData |-> k]
           allPred == [k \in DOMAIN allPredictions |-> k]
           goldIdx == findIndex(allGold, allGoldData, getProperty(pair, <<"gold">>).s, 1)
           predIdx == findIndex(allPred, allPredictions, getProperty(pair, <<"predicted">>).s, 1)
       IN  IF goldIdx # 0 /\ predIdx # 0
           THEN [throws |-> FALSE, found |-> TRUE, g |-> goldIdx, p |-> predIdx]
           ELSE [throws |-> FALSE, found |-> FALSE, g |-> 0, p |-> 0]

\* resolvePair without 'if (unmatchedGoldIdx !== -1 && unmatchedPredIdx !==
\* -1)': weights[undefined] of a text that is not found is a TypeError
resolvePairUnguarded(pair, allPredictions, allGoldData, unmatchedGoldIndices, unmatchedPredIndices) ==
  IF \/ raisesTypeError(pair, "gold", unmatchedGoldIndices)
     \/ raisesTypeError(pair, "predicted", unmatchedPredIndices)
     \/ findIndex(unmatchedGoldIndices, allGoldData, getProperty(pair, <<"gold">>).s, 1) = 0
     \/ findIndex(unmatchedPredIndices, allPredictions, getProperty(pair, <<"predicted">>).s, 1) = 0
  THEN [throws |-> TRUE, found |-> FALSE, g |-> 0, p |-> 0]
  ELSE [throws |-> FALSE, found |-> TRUE,
        g |-> unmatchedGoldIndices[findIndex(unmatchedGoldIndices, allGoldData,
                                             getProperty(pair, <<"gold">>).s, 1)],
        p |-> unmatchedPredIndices[findIndex(unmatchedPredIndices, allPredictions,
                                             getProperty(pair, <<"predicted">>).s, 1)]]

\* the cell a classifier pair resolves to: [throws, found, g, p]
resolvePair(pair, allPredictions, allGoldData, unmatchedGoldIndices, unmatchedPredIndices) ==
  IF \/ raisesTypeError(pair, "gold", unmatchedGoldIndices)
     \/ raisesTypeError(pair, "predicted", unmatchedPredIndices)
  THEN [throws |-> TRUE, found |-> FALSE, g |-> 0, p |-> 0]
  ELSE LET unmatchedGoldIdx ==
             findIndex(unmatchedGoldIndices, allGoldData,
                       getProperty(pair, <<"gold">>).s, 1)
           unmatchedPredIdx ==
             findIndex(unmatchedPredIndices, allPredictions,
                       getProperty(pair, <<"predicted">>).s, 1)
       IN  IF unmatchedGoldIdx # 0 /\ unmatchedPredIdx # 0
           THEN [throws |-> FALSE, found |-> TRUE,
                 g |-> unmatchedGoldIndices[unmatchedGoldIdx],
                 p |-> unmatchedPredIndices[unmatchedPredIdx]]
           ELSE [throws |-> FALSE, found |-> FALSE, g |-> 0, p |-> 0]

\* Step 1: weights[match.goldIndex][match.predIndex] = 1.0
RECURSIVE addExactMatches(_, _, _)
addExactMatches(weights, exactMatches, k) ==
  IF k > Len(exactMatches) THEN weights
  ELSE addExactMatches(
         [weights EXCEPT ![exactMatches[k].goldIndex][exactMatches[k].predIndex] = WExact],
         exactMatches, k + 1)

\* Step 2: every semantic pair that resolves sets its cell to 0.75
RECURSIVE addSemanticPairs(_, _, _, _, _, _, _)
addSemanticPairs(weights, pairs, k, allPredictions, allGoldData, ugi, upi) ==
  IF k > Len(pairs) THEN [throws |-> FALSE, weights |-> weights]
  ELSE LET cell == resolvePair(pairs[k], allPredictions, allGoldData, ugi, upi)
       IN  IF cell.throws THEN [throws |-> TRUE, weights |-> weights]
           ELSE addSemanticPairs(
                  IF cell.found THEN [weights EXCEPT ![cell.g][cell.p] = WSemantic]
                  ELSE weights,
                  pairs, k + 1, allPredictions, allGoldData, ugi, upi)

\* addPartialPairs without the test that the cell is below 0.75
RECURSIVE addPartialPairsUnguarded(_, _, _, _, _, _, _)
addPartialPairsUnguarded(weights, pairs, k, allPredictions, allGoldData, ugi, upi) ==
  IF k > Len(pairs) THEN [throws |-> FALSE, weights |-> weights]
  ELSE LET cell == resolvePair(pairs[k], allPredictions, allGoldData, ugi, upi)
       IN  IF cell.throws THEN [throws |-> TRUE, weights |-> weights]
           ELSE addPartialPairsUnguarded(
                  IF cell.found
                  THEN [weights EXCEPT ![cell.g][cell.p] = WPartial]
                  ELSE weights,
                  pairs, k + 1, allPredictions, allGoldData, ugi, upi)

\* Step 3: every partial pair that resolves sets its cell to 0.5 if the
\* cell is below 0.75
RECURSIVE addPartialPairs(_, _, _, _, _, _, _)
addPartialPairs(weights, pairs, k, allPredictions, allGoldData, ugi, upi) ==
  IF k > Len(pairs) THEN [throws |-> FALSE, weights |-> weights]
  ELSE LET cell == resolvePair(pairs[k], allPredictions, allGoldData, ugi, upi)
       IN  IF cell.throws THEN [throws |-> TRUE, weights |-> weights]
           ELSE addPartialPairs(
                  IF cell.found /\ weights[cell.g][cell.p] < WSemantic
                  THEN [weights EXCEPT ![cell.g][cell.p] = WPartial]
                  ELSE weights,
                  pairs, k + 1, allPredictions, allGoldData, ugi, upi)

\* buildOptimizedWeightMatrix: the G x P matrix, or throws = TRUE when a
\* TypeError escapes
buildOptimizedWeightMatrix(allPredictions, allGoldData, exactMatches, semanticPairs, partialPairs, unmatchedGoldIndices, unmatchedPredIndices) ==
  LET zeros == [g \in 1..Len(allGoldData) |-> [p \in 1..Len(allPredictions) |-> 0]]
      step1 == addExactMatches(zeros, exactMatches, 1)
      step2 == addSemanticPairs(step1, semanticPairs, 1, allPredictions,
                                allGoldData, unmatchedGoldIndices, unmatchedPredIndices)
  IN  IF step2.throws THEN step2
      ELSE addPartialPairs(step2.weights, partialPairs, 1, allPredictions,
                           allGoldData, unmatchedGoldIndices, unmatchedPredIndices)

(***************************************************************************)
(* Maximum-weight matching engine.                                         *)
(***************************************************************************)
\* the cells with weight > 0 of rows g.., in row-major order
RECURSIVE potentialMatchesFrom(_, _, _)
potentialMatchesFrom(weightMatrix, g, p) ==
  IF g > Len(weightMatrix) THEN <<>>
  ELSE IF p > Len(weightMatrix[g]) THEN potentialMatchesFrom(weightMatrix, g + 1, 1)
  ELSE (IF weightMatrix[g][p] > 0
        THEN <<[goldIndex |-> g, predIndex |-> p, weight |-> weightMatrix[g][p]]>>
        ELSE <<>>)
       \o potentialMatchesFrom(weightMatrix, g, p + 1)

\* the comparator with its operands exchanged: ascending weight
compareWeightAscending(a, b) == a.weight - b.weight

\* the comparator (a, b) => b.weight - a.weight
compareWeight(a, b) == b.weight - a.weight

\* insert x behind every element that does not sort after it (stable)
RECURSIVE insertSorted(_, _)
insertSorted(sorted, x) ==
  IF sorted = <<>> THEN <<x>>
  ELSE IF compareWeight(Head(sorted), x) <= 0
       THEN <<Head(sorted)>> \o insertSorted(Tail(sorted), x)
       ELSE <<x>> \o sorted

\* Array.prototype.sort with compareWeight: a stable sort
RECURSIVE sortByWeight(_)
sortByWeight(xs) ==
  IF xs = <<>> THEN <<>>
  ELSE insertSorted(sortByWeight(SubSeq(xs, 1, Len(xs) - 1)), xs[Len(xs)])

\* matchType that calls every weight of 0.75 or more exact
matchTypeAtLeast(weight) ==
  IF weight >= WSemantic THEN "exact" ELSE "partial"

\* weight === 1.0 ? 'exact' : weight === 0.75 ? 'semantic' : 'partial'
matchType(weight) ==
  IF weight = WExact THEN "exact"
  ELSE IF weight = WSemantic THEN "semantic" ELSE "partial"

\* alreadyMatched that looks at the gold side only
alreadyMatchedGoldOnly(selected, candidate) ==
  \E k \in DOMAIN selected : selected[k].goldIndex = candidate.goldIndex

\* alreadyMatched that looks at the predicted side only
alreadyMatchedPredOnly(selected, candidate) ==
  \E k \in DOMAIN selected : selected[k].predIndex = candidate.predIndex

\* whether a candidate is skipped: its gold or its prediction is matched
alreadyMatched(selected, candidate) ==
  \/ \E k \in DOMAIN selected : selected[k].goldIndex = candidate.goldIndex
  \/ \E k \in DOMAIN selected : selected[k].predIndex = candidate.predIndex

\* the greedy selection loop over the sorted candidates
RECURSIVE selectMatches(_, _, _)
selectMatches(candidates, k, selected) ==
  IF k > Len(candidates) THEN selected
  ELSE IF alreadyMatched(selected, candidates[k])
       THEN selectMatches(candidates, k + 1, selected)
       ELSE selectMatches(candidates, k + 1,
              Append(selected,
                     [goldIndex |-> candidates[k].goldIndex,
                      predIndex |-> candidates[k].predIndex,
                      weight |-> candidates[k].weight,
                      type |-> matchType(candidates[k].weight)]))

RECURSIVE sumWeights(_)
sumWeights(matches) ==
  IF matches = <<>> THEN 0 ELSE Head(matches).weight + sumWeights(Tail(matches))

\* findMaxWeightMatching / findMaxWeightRelationshipMatching
findMaxWeightMatching(weightMatrix, G, P) ==
  LET potentialMatches == sortByWeight(potentialMatchesFrom(weightMatrix, 1, 1))
      selectedMatches == selectMatches(potentialMatches, 1, <<>>)
  IN  [totalWeight |-> sumWeights(selectedMatches),
       matches |-> selectedMatches,
       unmatchedGoldIndices |->
         unmatchedFrom(1, G, {selectedMatches[k].goldIndex : k \in DOMAIN selectedMatches}),
       unmatchedPredIndices |->
         unmatchedFrom(1, P, {selectedMatches[k].predIndex : k \in DOMAIN selectedMatches})]

(***************************************************************************)
(* Metrics aggregator.  A number that need not be a multiple of 0.25 is a  *)
(* fraction [n, d]; d = 0 stands for NaN (n = 0) or Infinity (n > 0).      *)
(***************************************************************************)
Zero == [n |-> 0, d |-> 1]
Frac(n, d) == [n |-> n, d |-> d]
fracMul(a, b) == Frac(a.n * b.n, a.d * b.d)
fracAdd(a, b) == Frac(a.n * b.d + b.n * a.d, a.d * b.d)
fracDiv(a, b) == Frac(a.n * b.d, a.d * b.n)
\* x without the '|| 0'
notOrZero(x) == x
\* x || 0 : 0 and NaN are falsy
orZero(x) == IF x.n = 0 THEN Zero ELSE x

\* itemsOfType for a switch without break: an exact match falls through
\* into the semantic case
RECURSIVE itemsOfTypeFallthrough(_, _, _)
itemsOfTypeFallthrough(matches, type, allPredictions) ==
  IF matches = <<>> THEN <<>>
  ELSE (IF \/ Head(matches).type = type
           \/ Head(matches).type = "exact" /\ type = "semantic"
        THEN <<allPredictions[Head(matches).predIndex]>> ELSE <<>>)
       \o itemsOfTypeFallthrough(Tail(matches), type, allPredictions)

\* the predicted items of the matches of one type, in match order
RECURSIVE itemsOfType(_, _, _)
itemsOfType(matches, type, allPredictions) ==
  IF matches = <<>> THEN <<>>
  ELSE (IF Head(matches).type = type
        THEN <<allPredictions[Head(matches).predIndex]>> ELSE <<>>)
       \o itemsOfType(Tail(matches), type, allPredictions)

\* emptyResult that returns zeros throughout
emptyResultZeros(allPredictions, allGoldData) ==
  [precision |-> Zero, recall |-> Zero, f1 |-> Zero,
   TPw |-> 0, FPw |-> 0, FNw |-> 0,
   exact |-> <<>>, semantic |-> <<>>, partial |-> <<>>,
   noMatch |-> allPredictions]

\* the early return for an empty pool
emptyResult(allPredictions, allGoldData) ==
  [precision |-> Zero, recall |-> Zero, f1 |-> Zero,
   TPw |-> 0, FPw |-> 4 * Len(allPredictions), FNw |-> 4 * Len(allGoldData),
   exact |-> <<>>, semantic |-> <<>>, partial |-> <<>>,
   noMatch |-> allPredictions]

\* conservation laws, weighted metrics and categorisation
aggregate(matchingResult, allPredictions, allGoldData) ==
  LET G == Len(allGoldData)
      P == Len(allPredictions)
      TPw == matchingResult.totalWeight
      FNw == 4 * G - TPw
      FPw == 4 * P - TPw
      precision == orZero(Frac(TPw, 4 * P))
      recall == orZero(Frac(TPw, 4 * G))
      f1 == orZero(fracDiv(fracMul(Frac(2, 1), fracMul(precision, recall)),
                           fracAdd(precision, recall)))
  IN  [precision |-> precision, recall |-> recall, f1 |-> f1,
       TPw |-> TPw, FPw |-> FPw, FNw |-> FNw,
       exact |-> itemsOfType(matchingResult.matches, "exact", allPredictions),
       semantic |-> itemsOfType(matchingResult.matches, "semantic", allPredictions),
       partial |-> itemsOfType(matchingResult.matches, "partial", allPredictions),
       noMatch |-> [k \in DOMAIN matchingResult.unmatchedPredIndices |->
                      allPredictions[matchingResult.unmatchedPredIndices[k]]]]

(***************************************************************************)
(* Inputs: the text blocks of one evaluation and the judge's replies.      *)
(***************************************************************************)
GoldVocabulary == {<<"a">>, <<"b">>}
PredVocabulary == {<<"A", " ">>, <<"c">>, <<"d">>}

SeqsUpTo(S, n) == UNION {[1..k -> S] : k \in 0..n}

\* the ways to cut a list into k consecutive pieces, empty pieces included
cutsOf(list, k) ==
  {c \in [0..k -> 0..Len(list)] :
     /\ c[0] = 0
     /\ c[k] = Len(list)
     /\ \A b \in 1..k : c[b - 1] <= c[b]}

\* SentenceResult[]: k text blocks, each with its predictions and gold data
blocksOf(preds, golds, k) ==
  {[b \in 1..k |-> [predictions |-> SubSeq(preds, cp[b - 1] + 1, cp[b]),
                    goldData |-> SubSeq(golds, cg[b - 1] + 1, cg[b])]] :
     cp \in cutsOf(preds, k), cg \in cutsOf(golds, k)}

\* JSON text of a string without characters to escape
quoted(str) == <<"\"">> \o str \o <<"\"">>

RECURSIVE joinWithCommas(_)
joinWithCommas(texts) ==
  IF texts = <<>> THEN <<>>
  ELSE IF Len(texts) = 1 THEN texts[1]
  ELSE texts[1] \o <<",">> \o joinWithCommas(Tail(texts))

arrayText(texts) == <<"[">> \o joinWithCommas(texts) \o <<"]">>

\* JSON.stringify of an array of strings
stringifyStrings(strs) == arrayText([k \in DOMAIN strs |-> quoted(strs[k])])

\* {"gold":g,"predicted":p} with g and p JSON texts
pairText(g, p) ==
  <<"{">> \o quoted(<<"gold">>) \o <<":">> \o g \o <<",">>
          \o quoted(<<"predicted">>) \o <<":">> \o p \o <<"}">>

\* {"semantic_match_pairs":sem,"partial_match_pairs":par}
judgeText(sem, par) ==
  <<"{">> \o quoted(<<"semantic_match_pairs">>) \o <<":">> \o sem \o <<",", " ">>
          \o quoted(<<"partial_match_pairs">>) \o <<":">> \o par \o <<"}">>

fenced(text) == <<Fence, "json", "\n">> \o text \o <<"\n", Fence>>

qa == quoted(<<"a">>)
qb == quoted(<<"b">>)
qc == quoted(<<"c">>)
qd == quoted(<<"d">>)

\* what the judge may answer with: content of a successful APIResponse
JudgeContents ==
  { \* well-formed, bare JSON
    judgeText(arrayText(<<>>), arrayText(<<>>)),
    judgeText(arrayText(<<pairText(qa, qc)>>),
              arrayText(<<pairText(qa, qd), pairText(qb, qc)>>)),
    \* well-formed, in a fenced code block
    fenced(judgeText(arrayText(<<pairText(qa, qc)>>),
                     arrayText(<<pairText(qa, qc), pairText(qb, qd)>>))),
    fenced(judgeText(arrayText(<<pairText(quoted(<<"B", " ">>), quoted(<<" ", "C">>))>>),
                     arrayText(<<pairText(qa, qd)>>))),
    \* pairs that name exactly matched or unknown items
    fenced(judgeText(arrayText(<<pairText(qa, quoted(<<"A", " ">>)), pairText(qb, qc)>>),
                     arrayText(<<pairText(qa, quoted(<<"a">>)), pairText(qb, quoted(<<"zz">>))>>))),
    \* prose around an object with nested pairs, no fence
    <<"Here is", " ">> \o judgeText(arrayText(<<pairText(qb, qc)>>), arrayText(<<>>)),
    \* not JSON at all
    <<"I", " ", "cannot">>,
    \* JSON, but not an object
    <<"null">>,
    <<"5">>,
    arrayText(<<pairText(qb, qc)>>),
    \* an object whose keys are missing or hold no array
    <<"{">> \o quoted(<<"other">>) \o <<":">> \o arrayText(<<>>) \o <<"}">>,
    judgeText(<<"5">>, <<"null">>),
    \* arrays whose entries are not {gold: string, predicted: string}
    fenced(judgeText(arrayText(<<pairText(<<"1">>, qc)>>), arrayText(<<>>))),
    fenced(judgeText(arrayText(<<<<"null">>>>), arrayText(<<>>))),
    fenced(judgeText(arrayText(<<>>),
                     arrayText(<<<<"{">> \o quoted(<<"gold">>) \o <<":">> \o qb \o <<"}">>>>)))
  }

\* the APIResponse of callModel: the service resolves with success = false
\* on any HTTP or network error and never rejects
APIResponses ==
  {[success |-> TRUE, content |-> c] : c \in JudgeContents \cup {<<>>}}
  \cup {[success |-> FALSE, content |-> <<>>]}

(***************************************************************************)
(* Relationship extraction: prefilter and heuristic classifier.            *)
(* A CausalRelationship is a record [cause, effect, location, confidence]; *)
(* the two optional fields are Absent when they are absent.             *)
(***************************************************************************)
Absent == <<"undefined">>

\* the number of characters an atom stands for
atomLength(a) ==
  CASE a \in {"rain", "Rain", "fire", "heat"} -> 4
    [] a = "flood" -> 5
    [] a = "big" -> 3
    [] a = "it" -> 2
    [] OTHER -> 1

RECURSIVE stringLength(_)
stringLength(str) ==
  IF str = <<>> THEN 0 ELSE atomLength(Head(str)) + stringLength(Tail(str))

\* the end of the run of atoms from i on that are (not) white space
RECURSIVE runEnd(_, _, _)
runEnd(str, i, white) ==
  IF i <= Len(str) /\ ((str[i] \in Whitespace) = white)
  THEN runEnd(str, i + 1, white) ELSE i

\* str.slice(i - 1).split(/\s+/): the pieces between runs of white space
RECURSIVE splitFrom(_, _)
splitFrom(str, i) ==
  LET wordEnd == runEnd(str, i, FALSE)
  IN  IF wordEnd > Len(str) THEN <<SubSeq(str, i, Len(str))>>
      ELSE <<SubSeq(str, i, wordEnd - 1)>>
             \o splitFrom(str, runEnd(str, wordEnd, TRUE))

\* normalizeString(str).split(/\s+/).filter(w => w.length > 2), as the Set
\* that calculateWordOverlap makes of it (the words are lower case already)
wordSet(str) ==
  LET words == splitFrom(normalizeString(str), 1)
  IN  {toLowerCase(words[k]) : k \in {j \in DOMAIN words : stringLength(words[j]) > 2}}

\* intersection.size / union.size, 0 for an empty union
calculateWordOverlap(set1, set2) ==
  IF Cardinality(set1 \cup set2) > 0
  THEN [n |-> Cardinality(set1 \cap set2), d |-> Cardinality(set1 \cup set2)]
  ELSE [n |-> 0, d |-> 1]

\* (causeOverlap + effectOverlap) / 2, as a fraction
calculateRelationshipSimilarity(rel1, rel2) ==
  LET causeOverlap == calculateWordOverlap(wordSet(rel1.cause), wordSet(rel2.cause))
      effectOverlap == calculateWordOverlap(wordSet(rel1.effect), wordSet(rel2.effect))
  IN  [n |-> causeOverlap.n * effectOverlap.d + effectOverlap.n * causeOverlap.d,
       d |-> 2 * causeOverlap.d * effectOverlap.d]

\* similarity > tenths / 10
aboveTenths(similarity, tenths) == 10 * similarity.n > tenths * similarity.d

areRelationshipsEqual(rel1, rel2) ==
  /\ normalizeString(rel1.cause) = normalizeString(rel2.cause)
  /\ normalizeString(rel1.effect) = normalizeString(rel2.effect)

\* the inner loop of calculateExactRelationshipMatches
RECURSIVE firstExactRelationshipPred(_, _, _, _)
firstExactRelationshipPred(predictions, gold, matchedPred, p) ==
  IF p > Len(predictions) THEN 0
  ELSE IF p \notin matchedPred /\ areRelationshipsEqual(gold, predictions[p])
       THEN p
       ELSE firstExactRelationshipPred(predictions, gold, matchedPred, p + 1)

\* the outer loop of calculateExactRelationshipMatches from position g on
RECURSIVE exactRelationshipLoop(_, _, _, _)
exactRelationshipLoop(predictions, goldData, g, exactMatches) ==
  IF g > Len(goldData) THEN exactMatches
  ELSE LET matchedPred == {exactMatches[k].predIndex : k \in DOMAIN exactMatches}
           p == firstExactRelationshipPred(predictions, goldData[g], matchedPred, 1)
       IN  IF p = 0
           THEN exactRelationshipLoop(predictions, goldData, g + 1, exactMatches)
           ELSE exactRelationshipLoop(predictions, goldData, g + 1,
                  Append(exactMatches,
                         [goldIndex |-> g, predIndex |-> p,
                          weight |-> WExact, type |-> "exact"]))

calculateExactRelationshipMatches(predictions, goldData) ==
  LET exactMatches == exactRelationshipLoop(predictions, goldData, 1, <<>>)
      goldIndices == unmatchedFrom(1, Len(goldData),
                       {exactMatches[k].goldIndex : k \in DOMAIN exactMatches})
      predIndices == unmatchedFrom(1, Len(predictions),
                       {exactMatches[k].predIndex : k \in DOMAIN exactMatches})
  IN  [exactMatches |-> exactMatches,
       unmatchedGold |-> [k \in DOMAIN goldIndices |-> goldData[goldIndices[k]]],
       unmatchedPredicted |-> [k \in DOMAIN predIndices |-> predictions[predIndices[k]]],
       goldIndices |-> goldIndices,
       predIndices |-> predIndices]

\* JSON.stringify of a CausalRelationship
stringifyRelationship(rel) ==
  <<"{">> \o quoted(<<"cause">>) \o <<":">> \o quoted(rel.cause) \o <<",">>
          \o quoted(<<"effect">>) \o <<":">> \o quoted(rel.effect)
          \o (IF rel.location = Absent THEN <<>>
              ELSE <<",">> \o quoted(<<"location">>) \o <<":">> \o quoted(rel.location))
          \o (IF rel.confidence = Absent THEN <<>>
              ELSE <<",">> \o quoted(<<"confidence">>) \o <<":">> \o rel.confidence)
          \o <<"}">>

\* bestMatchFrom with >= for >: among equals the last gold position wins
RECURSIVE bestMatchFromLastWins(_, _, _, _, _)
bestMatchFromLastWins(prediction, unmatchedGoldData, usedGoldIndices, g, bestMatch) ==
  IF g > Len(unmatchedGoldData) THEN bestMatch
  ELSE IF g \in usedGoldIndices
       THEN bestMatchFromLastWins(prediction, unmatchedGoldData, usedGoldIndices, g + 1,
                                  bestMatch)
  ELSE LET similarity == calculateRelationshipSimilarity(prediction, unmatchedGoldData[g])
       IN  IF bestMatch.goldIndex = 0
              \/ similarity.n * bestMatch.similarity.d >= bestMatch.similarity.n * similarity.d
           THEN bestMatchFromLastWins(prediction, unmatchedGoldData, usedGoldIndices, g + 1,
                                      [goldIndex |-> g, similarity |-> similarity])
           ELSE bestMatchFromLastWins(prediction, unmatchedGoldData, usedGoldIndices, g + 1,
                                      bestMatch)

\* the inner loop of evaluateRelationshipSemanticMatches: the unused gold
\* position with the greatest similarity, the first one among equals
RECURSIVE bestMatchFrom(_, _, _, _, _)
bestMatchFrom(prediction, unmatchedGoldData, usedGoldIndices, g, bestMatch) ==
  IF g > Len(unmatchedGoldData) THEN bestMatch
  ELSE IF g \in usedGoldIndices
       THEN bestMatchFrom(prediction, unmatchedGoldData, usedGoldIndices, g + 1, bestMatch)
  ELSE LET similarity == calculateRelationshipSimilarity(prediction, unmatchedGoldData[g])
       IN  IF bestMatch.goldIndex = 0
              \/ similarity.n * bestMatch.similarity.d > bestMatch.similarity.n * similarity.d
           THEN bestMatchFrom(prediction, unmatchedGoldData, usedGoldIndices, g + 1,
                              [goldIndex |-> g, similarity |-> similarity])
           ELSE bestMatchFrom(prediction, unmatchedGoldData, usedGoldIndices, g + 1,
                              bestMatch)

\* {gold: JSON.stringify(...), predicted: JSON.stringify(...)}
stringPair(gold, prediction) ==
  [gold |-> stringifyRelationship(gold), predicted |-> stringifyRelationship(prediction)]

\* heuristicLoop without usedGoldIndices.add: a gold relationship stays
\* free after it has been paired
RECURSIVE heuristicLoopReusingGold(_, _, _, _, _, _)
heuristicLoopReusingGold(unmatchedPredictions, unmatchedGoldData, p, usedGoldIndices, semanticPairs, partialPairs) ==
  IF p > Len(unmatchedPredictions)
  THEN [semanticPairs |-> semanticPairs, partialPairs |-> partialPairs]
  ELSE LET bestMatch == bestMatchFrom(unmatchedPredictions[p], unmatchedGoldData,
                                      usedGoldIndices, 1,
                                      [goldIndex |-> 0, similarity |-> Zero])
           pair == stringPair(unmatchedGoldData[bestMatch.goldIndex],
                              unmatchedPredictions[p])
       IN  IF bestMatch.goldIndex # 0 /\ aboveTenths(bestMatch.similarity, 7)
           THEN heuristicLoopReusingGold(unmatchedPredictions, unmatchedGoldData, p + 1,
                                         usedGoldIndices,
                                         Append(semanticPairs, pair), partialPairs)
           ELSE IF bestMatch.goldIndex # 0 /\ aboveTenths(bestMatch.similarity, 4)
           THEN heuristicLoopReusingGold(unmatchedPredictions, unmatchedGoldData, p + 1,
                                         usedGoldIndices,
                                         semanticPairs, Append(partialPairs, pair))
           ELSE heuristicLoopReusingGold(unmatchedPredictions, unmatchedGoldData, p + 1,
                                         usedGoldIndices, semanticPairs, partialPairs)

\* the outer loop of evaluateRelationshipSemanticMatches from position p on
RECURSIVE heuristicLoop(_, _, _, _, _, _)
heuristicLoop(unmatchedPredictions, unmatchedGoldData, p, usedGoldIndices, semanticPairs, partialPairs) ==
  IF p > Len(unmatchedPredictions)
  THEN [semanticPairs |-> semanticPairs, partialPairs |-> partialPairs]
  ELSE LET bestMatch == bestMatchFrom(unmatchedPredictions[p], unmatchedGoldData,
                                      usedGoldIndices, 1,
                                      [goldIndex |-> 0, similarity |-> Zero])
           pair == stringPair(unmatchedGoldData[bestMatch.goldIndex],
                              unmatchedPredictions[p])
       IN  IF bestMatch.goldIndex # 0 /\ aboveTenths(bestMatch.similarity, 7)
           THEN heuristicLoop(unmatchedPredictions, unmatchedGoldData, p + 1,
                              usedGoldIndices \cup {bestMatch.goldIndex},
                              Append(semanticPairs, pair), partialPairs)
           ELSE IF bestMatch.goldIndex # 0 /\ aboveTenths(bestMatch.similarity, 4)
           THEN heuristicLoop(unmatchedPredictions, unmatchedGoldData, p + 1,
                              usedGoldIndices \cup {bestMatch.goldIndex},
                              semanticPairs, Append(partialPairs, pair))
           ELSE heuristicLoop(unmatchedPredictions, unmatchedGoldData, p + 1,
                              usedGoldIndices, semanticPairs, partialPairs)

evaluateRelationshipSemanticMatches(unmatchedPredictions, unmatchedGoldData) ==
  IF Len(unmatchedPredictions) = 0 \/ Len(unmatchedGoldData) = 0
  THEN EmptyPairs
  ELSE heuristicLoop(unmatchedPredictions, unmatchedGoldData, 1, {}, <<>>, <<>>)

(***************************************************************************)
(* Relationship extraction: weight matrix, matching and metrics.           *)
(***************************************************************************)
\* the callback of findIndex calls areRelationshipsEqual(all[idx], rel) on
\* the elements it visits: a TypeError when rel is null, when rel.cause is
\* no string, or when the causes agree and rel.effect is no string
relationshipRaisesTypeError(rel, indices, all) ==
  /\ indices # <<>>
  /\ \/ rel.t = "null"
     \/ getProperty(rel, <<"cause">>).t # "str"
     \/ /\ getProperty(rel, <<"effect">>).t # "str"
        /\ \E k \in DOMAIN indices :
             normalizeString(all[indices[k]].cause)
               = normalizeString(getProperty(rel, <<"cause">>).s)

\* the parsed object as a CausalRelationship
asRelationship(rel) ==
  [cause |-> getProperty(rel, <<"cause">>).s, effect |-> getProperty(rel, <<"effect">>).s]

\* findIndex over the unmatched positions with areRelationshipsEqual
RECURSIVE findRelationshipIndex(_, _, _, _)
findRelationshipIndex(indices, all, rel, k) ==
  IF k > Len(indices) THEN 0
  ELSE IF areRelationshipsEqual(all[indices[k]], rel) THEN k
       ELSE findRelationshipIndex(indices, all, rel, k + 1)

\* the cell of two parsed texts: [throws, found, g, p]; a text that did not
\* parse stands for a SyntaxError of JSON.parse, the comparison may raise a
\* TypeError
resolveParsedPair(goldRel, predRel, allPredictions, allGoldData, unmatchedGoldIndices, unmatchedPredIndices) ==
  IF \/ ~goldRel.ok
     \/ ~predRel.ok
     \/ relationshipRaisesTypeError(goldRel.val, unmatchedGoldIndices, allGoldData)
     \/ relationshipRaisesTypeError(predRel.val, unmatchedPredIndices, allPredictions)
  THEN [throws |-> TRUE, found |-> FALSE, g |-> 0, p |-> 0]
  ELSE LET unmatchedGoldIdx ==
             findRelationshipIndex(unmatchedGoldIndices, allGoldData,
                                   asRelationship(goldRel.val), 1)
           unmatchedPredIdx ==
             findRelationshipIndex(unmatchedPredIndices, allPredictions,
                                   asRelationship(predRel.val), 1)
       IN  IF unmatchedGoldIdx # 0 /\ unmatchedPredIdx # 0
           THEN [throws |-> FALSE, found |-> TRUE,
                 g |-> unmatchedGoldIndices[unmatchedGoldIdx],
                 p |-> unmatchedPredIndices[unmatchedPredIdx]]
           ELSE [throws |-> FALSE, found |-> FALSE, g |-> 0, p |-> 0]

\* the cell a pair of JSON texts resolves to
resolveRelationshipPair(pair, allPredictions, allGoldData, unmatchedGoldIndices, unmatchedPredIndices) ==
  resolveParsedPair(JSONParse(pair.gold), JSONParse(pair.predicted), allPredictions, allGoldData, unmatchedGoldIndices, unmatchedPredIndices)

\* Step 2 of buildRelationshipWeightMatrix
RECURSIVE addSemanticRelationshipPairs(_, _, _, _, _, _, _)
addSemanticRelationshipPairs(weights, pairs, k, allPredictions, allGoldData, ugi, upi) ==
  IF k > Len(pairs) THEN [throws |-> FALSE, weights |-> weights]
  ELSE LET set(cell) ==
             IF cell.throws THEN [throws |-> TRUE, weights |-> weights]
             ELSE addSemanticRelationshipPairs(
                    IF cell.found THEN [weights EXCEPT ![cell.g][cell.p] = WSemantic]
                    ELSE weights,
                    pairs, k + 1, allPredictions, allGoldData, ugi, upi)
       IN  set(resolveRelationshipPair(pairs[k], allPredictions, allGoldData, ugi, upi))

\* Step 3 of buildRelationshipWeightMatrix
RECURSIVE addPartialRelationshipPairs(_, _, _, _, _, _, _)
addPartialRelationshipPairs(weights, pairs, k, allPredictions, allGoldData, ugi, upi) ==
  IF k > Len(pairs) THEN [throws |-> FALSE, weights |-> weights]
  ELSE LET set(cell) ==
             IF cell.throws THEN [throws |-> TRUE, weights |-> weights]
             ELSE addPartialRelationshipPairs(
                    IF cell.found /\ weights[cell.g][cell.p] < WSemantic
                    THEN [weights EXCEPT ![cell.g][cell.p] = WPartial]
                    ELSE weights,
                    pairs, k + 1, allPredictions, allGoldData, ugi, upi)
       IN  set(resolveRelationshipPair(pairs[k], allPredictions, allGoldData, ugi, upi))

buildRelationshipWeightMatrix(allPredictions, allGoldData, exactMatches, semanticPairs, partialPairs, unmatchedGoldIndices, unmatchedPredIndices) ==
  LET zeros == [g \in 1..Len(allGoldData) |-> [p \in 1..Len(allPredictions) |-> 0]]
      step1 == addExactMatches(zeros, exactMatches, 1)
      step2 == addSemanticRelationshipPairs(step1, semanticPairs, 1, allPredictions,
                 allGoldData, unmatchedGoldIndices, unmatchedPredIndices)
  IN  IF step2.throws THEN step2
      ELSE addPartialRelationshipPairs(step2.weights, partialPairs, 1, allPredictions,
             allGoldData, unmatchedGoldIndices, unmatchedPredIndices)

\* the same greedy selection as findMaxWeightMatching
findMaxWeightRelationshipMatching(weightMatrix, G, P) ==
  LET potentialMatches == sortByWeight(potentialMatchesFrom(weightMatrix, 1, 1))
      selectedMatches == selectMatches(potentialMatches, 1, <<>>)
  IN  [totalWeight |-> sumWeights(selectedMatches),
       matches |-> selectedMatches,
       unmatchedGoldIndices |->
         unmatchedFrom(1, G, {selectedMatches[k].goldIndex : k \in DOMAIN selectedMatches}),
       unmatchedPredIndices |->
         unmatchedFrom(1, P, {selectedMatches[k].predIndex : k \in DOMAIN selectedMatches})]

\* allPredictionsPairs.map(p => JSON.stringify(p))
stringifyAll(relationships) ==
  [k \in DOMAIN relationships |-> stringifyRelationship(relationships[k])]

\* the early return of the relationship task for an empty pool
emptyRelationshipResult(allPredictions, allGoldData) ==
  [precision |-> Zero, recall |-> Zero, f1 |-> Zero,
   TPw |-> 0, FPw |-> 4 * Len(allPredictions), FNw |-> 4 * Len(allGoldData),
   exact |-> <<>>, semantic |-> <<>>, partial |-> <<>>,
   noMatch |-> stringifyAll(allPredictions)]

\* conservation laws, weighted metrics and categorisation of the
\* relationship task: the arrays hold the JSON texts of the predictions
aggregateRelationships(matchingResult, allPredictions, allGoldData) ==
  LET G == Len(allGoldData)
      P == Len(allPredictions)
      TPw == matchingResult.totalWeight
      FNw == 4 * G - TPw
      FPw == 4 * P - TPw
      precision == orZero(Frac(TPw, 4 * P))
      recall == orZero(Frac(TPw, 4 * G))
      f1 == orZero(fracDiv(fracMul(Frac(2, 1), fracMul(precision, recall)),
                           fracAdd(precision, recall)))
      shown == stringifyAll(allPredictions)
  IN  [precision |-> precision, recall |-> recall, f1 |-> f1,
       TPw |-> TPw, FPw |-> FPw, FNw |-> FNw,
       exact |-> itemsOfType(matchingResult.matches, "exact", shown),
       semantic |-> itemsOfType(matchingResult.matches, "semantic", shown),
       partial |-> itemsOfType(matchingResult.matches, "partial", shown),
       noMatch |-> [k \in DOMAIN matchingResult.unmatchedPredIndices |->
                      shown[matchingResult.unmatchedPredIndices[k]]]]

\* the relationships of the explored inputs
GoldRelationships ==
  {[cause |-> <<"rain">>, effect |-> <<"flood">>,
    location |-> Absent, confidence |-> Absent],
   [cause |-> <<"heat">>, effect |-> <<"fire">>,
    location |-> <<"p2">>, confidence |-> Absent]}
PredRelationships ==
  {[cause |-> <<"Rain">>, effect |-> <<"flood", " ">>,
    location |-> <<"p1">>, confidence |-> <<"1">>],
   [cause |-> <<"it", " ", "rain">>, effect |-> <<"big", " ", "flood">>,
    location |-> Absent, confidence |-> Absent],
   [cause |-> <<"rain">>, effect |-> <<"fire">>,
    location |-> Absent, confidence |-> Absent],
   [cause |-> <<"rain">>, effect |-> <<"heat">>,
    location |-> Absent, confidence |-> Absent]}

(***************************************************************************)
(* calculateStandardSemanticMetrics, step by step.                         *)
(***************************************************************************)
VARIABLES
  argMaxRetries,     \* retryWithBackoff: the argument maxRetries
  argBaseDelay,      \* the argument baseDelay
  attempt,           \* the loop variable i
  retryPc,           \* where the call of retryWithBackoff is
  invocations,       \* how each invocation of fn settled, in order
  lastError,
  delays,            \* the delays waited so far, in order
  retryOutcome       \* how retryWithBackoff settled

retryVars == <<argMaxRetries, argBaseDelay, attempt, retryPc, invocations,
               lastError, delays, retryOutcome>>

\* what fn or retryWithBackoff settled with; nothing yet is Unset
Unset == [kind |-> "undefined", text |-> ""]
settled(state, value) == [state |-> state, value |-> value]

\* no call of retryWithBackoff is under way
RetryNotCalled ==
  /\ argMaxRetries = 0
  /\ argBaseDelay = 0
  /\ attempt = 0
  /\ retryPc = "idle"
  /\ invocations = <<>>
  /\ lastError = Unset
  /\ delays = <<>>
  /\ retryOutcome = settled("pending", Unset)

TaskTypes == {"entity_extraction", "relationship_extraction"}

VARIABLES
  task,              \* the task argument of the call
  numBlocks,         \* sentenceResults.length
  pc,                \* where the call is
  allPredictions,    \* the pooled predictions
  allGoldData,       \* the pooled gold data
  exactMatchResult,  \* the result of the prefilter
  judgeRequests,     \* the requests sent to the judge so far
  judgeResponse,     \* the APIResponse of the judge
  classified,        \* semanticPairs and partialPairs
  weightMatrix,
  matchingResult,
  outcome,           \* "pending", "returned" or "thrown"
  result             \* the StandardSemanticMetricsResult returned

evalVars == <<task, numBlocks, pc, allPredictions, allGoldData, exactMatchResult,
          judgeRequests, judgeResponse, classified, weightMatrix,
          matchingResult, outcome, result>>

None == <<>>
NoResponse == [success |-> FALSE, content |-> <<"none">>]

\* what the callers of calculateStandardSemanticMetrics hold: the outcome of
\* an earlier call with the same arguments; the locals of a second call that
\* is suspended (or has not run yet) while this one runs; whether both calls
\* were suspended at the judge's await at the same time
VARIABLES previousResult, otherRun, overlapped

callerVars == <<previousResult, otherRun, overlapped>>
NoCallers == previousResult = None /\ otherRun = None /\ overlapped = FALSE

\* runEvaluation: its arguments selectedPrompts and modelsToUse, the places
\* of its two for-of loops, its array results, the errors of the progress
\* state, what every processed combination did, and the run handed to
\* setCurrentRun
VARIABLES selectedPrompts, modelsToUse, promptAt, modelAt, runPc, results,
          progressErrors, processed, newRun

runVars == <<selectedPrompts, modelsToUse, promptAt, modelAt, runPc, results,
             progressErrors, processed, newRun>>

RunNotCalled ==
  /\ selectedPrompts = <<>>
  /\ modelsToUse = <<>>
  /\ promptAt = 0
  /\ modelAt = 0
  /\ runPc = "idle"
  /\ results = <<>>
  /\ progressErrors = <<>>
  /\ processed = <<>>
  /\ newRun = None

\* processEvaluationWithLLM: its arguments sentences (by id) and
\* model.provider, the loop index i (1-based), the place in the loop, the
\* array results, what retryWithBackoff settled with for every block so
\* far, and the calls of onProgress
VARIABLES inputSentences, provider, sentenceAt, procPc, blockResults,
          settledCalls, progressReports

procVars == <<inputSentences, provider, sentenceAt, procPc, blockResults,
              settledCalls, progressReports>>

ProcNotCalled ==
  /\ inputSentences = <<>>
  /\ provider = "anthropic"
  /\ sentenceAt = 0
  /\ procPc = "idle"
  /\ blockResults = <<>>
  /\ settledCalls = <<>>
  /\ progressReports = <<>>

vars == <<evalVars, retryVars, callerVars, runVars, procVars>>

\* what a step of one machine leaves alone outside its own variables
evalFrame == <<retryVars, callerVars, runVars, procVars>>
retryFrame == <<evalVars, callerVars, runVars, procVars>>
runFrame == <<evalVars, retryVars, callerVars, procVars>>

Init ==
  /\ RetryNotCalled
  /\ RunNotCalled
  /\ ProcNotCalled
  /\ NoCallers
  /\ task \in TaskTypes
  /\ numBlocks = 0
  /\ pc = "start"
  /\ allPredictions = <<>>
  /\ allGoldData = <<>>
  /\ exactMatchResult = None
  /\ judgeRequests = <<>>
  /\ judgeResponse = NoResponse
  /\ classified = EmptyPairs
  /\ weightMatrix = None
  /\ matchingResult = None
  /\ outcome = "pending"
  /\ result = None

\* result.forEach(... push(...result.predictions)): the concatenation of
\* one field over the blocks
RECURSIVE flatten(_, _)
flatten(blocks, field) ==
  IF blocks = <<>> THEN <<>>
  ELSE Head(blocks)[field] \o flatten(Tail(blocks), field)

\* pool the blocks; an empty pool returns at once
CollectPools ==
  /\ task = "entity_extraction"
  /\ pc = "start"
  /\ \E preds \in SeqsUpTo(PredVocabulary, MaxItems),
        golds \in SeqsUpTo(GoldVocabulary, MaxItems), k \in 1..MaxBlocks :
       \E sentenceResults \in blocksOf(preds, golds, k) :
         /\ numBlocks' = Len(sentenceResults)
         /\ allPredictions' = flatten(sentenceResults, "predictions")
         /\ allGoldData' = flatten(sentenceResults, "goldData")
  /\ IF Len(allPredictions') = 0 \/ Len(allGoldData') = 0
     THEN /\ result' = emptyResult(allPredictions', allGoldData')
          /\ outcome' = "returned"
          /\ pc' = "done"
     ELSE /\ pc' = "prefilter"
          /\ UNCHANGED <<result, outcome>>
  /\ UNCHANGED <<task, exactMatchResult, judgeRequests, judgeResponse,
                 classified, weightMatrix, matchingResult>>
  /\ UNCHANGED evalFrame

\* Step 1: the exact matches; Step 2 is skipped when a remainder is empty
ExactPrefilter ==
  /\ task = "entity_extraction"
  /\ pc = "prefilter"
  /\ exactMatchResult' = calculateExactMatches(allPredictions, allGoldData)
  /\ pc' = IF Len(exactMatchResult'.unmatchedPredicted) > 0
              /\ Len(exactMatchResult'.unmatchedGold) > 0
           THEN "classify" ELSE "build"
  /\ UNCHANGED <<task, numBlocks, allPredictions, allGoldData, judgeRequests,
                 judgeResponse, classified, weightMatrix, matchingResult,
                 outcome, result>>
  /\ UNCHANGED evalFrame

\* JudgeRequest that sends the whole pools
JudgeRequestWholePools ==
  /\ task = "entity_extraction"
  /\ pc = "classify"
  /\ judgeRequests' = Append(judgeRequests,
       [predicted |-> stringifyStrings(allPredictions),
        gold |-> stringifyStrings(allGoldData)])
  /\ pc' = "awaitJudge"
  /\ UNCHANGED <<task, numBlocks, allPredictions, allGoldData, exactMatchResult,
                 judgeResponse, classified, weightMatrix, matchingResult,
                 outcome, result>>
  /\ UNCHANGED evalFrame

\* JudgeRequest that sends one request for every text block
JudgeRequestPerBlock ==
  /\ task = "entity_extraction"
  /\ pc = "classify"
  /\ judgeRequests' = judgeRequests \o
       [b \in 1..numBlocks |->
          [predicted |-> stringifyStrings(exactMatchResult.unmatchedPredicted),
           gold |-> stringifyStrings(exactMatchResult.unmatchedGold)]]
  /\ pc' = "awaitJudge"
  /\ UNCHANGED <<task, numBlocks, allPredictions, allGoldData, exactMatchResult,
                 judgeResponse, classified, weightMatrix, matchingResult,
                 outcome, result>>
  /\ UNCHANGED evalFrame

\* evaluateSemanticMatches up to the await: nothing is sent when a list is
\* empty; otherwise the prompt is built from the two lists and
\* llmService.callModel is called, once
JudgeRequest ==
  /\ task = "entity_extraction"
  /\ pc = "classify"
  /\ IF Len(exactMatchResult.unmatchedPredicted) = 0
        \/ Len(exactMatchResult.unmatchedGold) = 0
     THEN /\ classified' = EmptyPairs
          /\ pc' = "build"
          /\ UNCHANGED judgeRequests
     ELSE /\ judgeRequests' = Append(judgeRequests,
               [predicted |-> stringifyStrings(exactMatchResult.unmatchedPredicted),
                gold |-> stringifyStrings(exactMatchResult.unmatchedGold)])
          /\ pc' = "awaitJudge"
          /\ UNCHANGED classified
  /\ UNCHANGED <<task, numBlocks, allPredictions, allGoldData, exactMatchResult,
                 judgeResponse, weightMatrix, matchingResult, outcome, result>>
  /\ UNCHANGED evalFrame

\* evaluateSemanticMatches after the await
semanticResultOf(response) ==
  IF response.success /\ response.content # <<>>
  THEN parseSemanticEvaluationResponse(response.content)
  ELSE EmptyPairs

\* callModel resolves; the pairs are parsed from a successful response and
\* are empty otherwise
JudgeReply ==
  /\ task = "entity_extraction"
  /\ pc = "awaitJudge"
  /\ \E response \in APIResponses :
       /\ judgeResponse' = response
       /\ classified' = semanticResultOf(response)
  /\ pc' = "build"
  /\ UNCHANGED <<task, numBlocks, allPredictions, allGoldData, exactMatchResult,
                 judgeRequests, weightMatrix, matchingResult, outcome, result>>
  /\ UNCHANGED evalFrame

\* Step 3: the weight matrix; a TypeError here is not caught
BuildWeightMatrix ==
  /\ task = "entity_extraction"
  /\ pc = "build"
  /\ LET built == buildOptimizedWeightMatrix(allPredictions, allGoldData,
                    exactMatchResult.exactMatches,
                    classified.semanticPairs, classified.partialPairs,
                    exactMatchResult.goldIndices, exactMatchResult.predIndices)
     IN  IF built.throws
         THEN /\ outcome' = "thrown"
              /\ pc' = "done"
              /\ UNCHANGED weightMatrix
         ELSE /\ weightMatrix' = built.weights
              /\ pc' = "match"
              /\ UNCHANGED outcome
  /\ UNCHANGED <<task, numBlocks, allPredictions, allGoldData, exactMatchResult,
                 judgeRequests, judgeResponse, classified, matchingResult, result>>
  /\ UNCHANGED evalFrame

\* Step 4: the matching
FindMatching ==
  /\ task = "entity_extraction"
  /\ pc = "match"
  /\ matchingResult' = findMaxWeightMatching(weightMatrix, Len(allGoldData),
                                             Len(allPredictions))
  /\ pc' = "aggregate"
  /\ UNCHANGED <<task, numBlocks, allPredictions, allGoldData, exactMatchResult,
                 judgeRequests, judgeResponse, classified, weightMatrix,
                 outcome, result>>
  /\ UNCHANGED evalFrame

\* conservation laws, metrics, categorisation and the return
Aggregate ==
  /\ task = "entity_extraction"
  /\ pc = "aggregate"
  /\ result' = aggregate(matchingResult, allPredictions, allGoldData)
  /\ outcome' = "returned"
  /\ pc' = "done"
  /\ UNCHANGED <<task, numBlocks, allPredictions, allGoldData, exactMatchResult,
                 judgeRequests, judgeResponse, classified, weightMatrix,
                 matchingResult>>
  /\ UNCHANGED evalFrame

\* the relationship task: pool the blocks; an empty pool returns at once
CollectRelationshipPools ==
  /\ task = "relationship_extraction"
  /\ pc = "start"
  /\ \E preds \in SeqsUpTo(PredRelationships, MaxItems),
        golds \in SeqsUpTo(GoldRelationships, MaxItems), k \in 1..MaxBlocks :
       \E sentenceResults \in blocksOf(preds, golds, k) :
         /\ numBlocks' = Len(sentenceResults)
         /\ allPredictions' = flatten(sentenceResults, "predictions")
         /\ allGoldData' = flatten(sentenceResults, "goldData")
  /\ IF Len(allPredictions') = 0 \/ Len(allGoldData') = 0
     THEN /\ result' = emptyRelationshipResult(allPredictions', allGoldData')
          /\ outcome' = "returned"
          /\ pc' = "done"
     ELSE /\ pc' = "prefilter"
          /\ UNCHANGED <<result, outcome>>
  /\ UNCHANGED <<task, exactMatchResult, judgeRequests, judgeResponse,
                 classified, weightMatrix, matchingResult>>
  /\ UNCHANGED evalFrame

\* Step 1 of the relationship task
ExactRelationshipPrefilter ==
  /\ task = "relationship_extraction"
  /\ pc = "prefilter"
  /\ exactMatchResult' = calculateExactRelationshipMatches(allPredictions, allGoldData)
  /\ pc' = IF Len(exactMatchResult'.unmatchedPredicted) > 0
              /\ Len(exactMatchResult'.unmatchedGold) > 0
           THEN "classify" ELSE "build"
  /\ UNCHANGED <<task, numBlocks, allPredictions, allGoldData, judgeRequests,
                 judgeResponse, classified, weightMatrix, matchingResult,
                 outcome, result>>
  /\ UNCHANGED evalFrame

\* Step 2 of the relationship task: the heuristic classifier, no request
HeuristicClassify ==
  /\ task = "relationship_extraction"
  /\ pc = "classify"
  /\ classified' = evaluateRelationshipSemanticMatches(
                     exactMatchResult.unmatchedPredicted, exactMatchResult.unmatchedGold)
  /\ pc' = "build"
  /\ UNCHANGED <<task, numBlocks, allPredictions, allGoldData, exactMatchResult,
                 judgeRequests, judgeResponse, weightMatrix, matchingResult,
                 outcome, result>>
  /\ UNCHANGED evalFrame

\* Step 3 of the relationship task; an error here is not caught
BuildRelationshipWeightMatrix ==
  /\ task = "relationship_extraction"
  /\ pc = "build"
  /\ LET built == buildRelationshipWeightMatrix(allPredictions, allGoldData,
                    exactMatchResult.exactMatches,
                    classified.semanticPairs, classified.partialPairs,
                    exactMatchResult.goldIndices, exactMatchResult.predIndices)
     IN  IF built.throws
         THEN /\ outcome' = "thrown"
              /\ pc' = "done"
              /\ UNCHANGED weightMatrix
         ELSE /\ weightMatrix' = built.weights
              /\ pc' = "match"
              /\ UNCHANGED outcome
  /\ UNCHANGED <<task, numBlocks, allPredictions, allGoldData, exactMatchResult,
                 judgeRequests, judgeResponse, classified, matchingResult, result>>
  /\ UNCHANGED evalFrame

\* the candidates in the opposite order
reversed(xs) == [k \in DOMAIN xs |-> xs[Len(xs) + 1 - k]]

\* FindRelationshipMatching with a sort that leaves candidates of equal
\* weight in either order
FindRelationshipMatchingUnstable ==
  /\ task = "relationship_extraction"
  /\ pc = "match"
  /\ \E flip \in BOOLEAN :
       LET candidates == potentialMatchesFrom(weightMatrix, 1, 1)
           potentialMatches == sortByWeight(IF flip THEN reversed(candidates) ELSE candidates)
           selectedMatches == selectMatches(potentialMatches, 1, <<>>)
       IN  matchingResult' =
             [totalWeight |-> sumWeights(selectedMatches),
              matches |-> selectedMatches,
              unmatchedGoldIndices |->
                unmatchedFrom(1, Len(allGoldData),
                  {selectedMatches[k].goldIndex : k \in DOMAIN selectedMatches}),
              unmatchedPredIndices |->
                unmatchedFrom(1, Len(allPredictions),
                  {selectedMatches[k].predIndex : k \in DOMAIN selectedMatches})]
  /\ pc' = "aggregate"
  /\ UNCHANGED <<task, numBlocks, allPredictions, allGoldData, exactMatchResult,
                 judgeRequests, judgeResponse, classified, weightMatrix,
                 outcome, result>>
  /\ UNCHANGED evalFrame

\* Step 4 of the relationship task
FindRelationshipMatching ==
  /\ task = "relationship_extraction"
  /\ pc = "match"
  /\ matchingResult' = findMaxWeightRelationshipMatching(weightMatrix,
                         Len(allGoldData), Len(allPredictions))
  /\ pc' = "aggregate"
  /\ UNCHANGED <<task, numBlocks, allPredictions, allGoldData, exactMatchResult,
                 judgeRequests, judgeResponse, classified, weightMatrix,
                 outcome, result>>
  /\ UNCHANGED evalFrame

\* conservation laws, metrics, categorisation and the return
AggregateRelationships ==
  /\ task = "relationship_extraction"
  /\ pc = "aggregate"
  /\ result' = aggregateRelationships(matchingResult, allPredictions, allGoldData)
  /\ outcome' = "returned"
  /\ pc' = "done"
  /\ UNCHANGED <<task, numBlocks, allPredictions, allGoldData, exactMatchResult,
                 judgeRequests, judgeResponse, classified, weightMatrix,
                 matchingResult>>
  /\ UNCHANGED evalFrame

\* the caller keeps what the relationship call returned and calls again with
\* the same sentenceResults: the same pools, every local of the call fresh
RunAgain ==
  /\ task = "relationship_extraction"
  /\ pc = "done"
  /\ previousResult = None
  /\ previousResult' = [outcome |-> outcome, result |-> result]
  /\ exactMatchResult' = None
  /\ classified' = EmptyPairs
  /\ weightMatrix' = None
  /\ matchingResult' = None
  /\ IF Len(allPredictions) = 0 \/ Len(allGoldData) = 0
     THEN /\ result' = emptyRelationshipResult(allPredictions, allGoldData)
          /\ outcome' = "returned"
          /\ pc' = "done"
     ELSE /\ result' = None
          /\ outcome' = "pending"
          /\ pc' = "prefilter"
  /\ UNCHANGED <<task, numBlocks, allPredictions, allGoldData, judgeRequests,
                 judgeResponse>>
  /\ UNCHANGED <<retryVars, otherRun, overlapped, runVars, procVars>>

Next ==
  \/ CollectPools
  \/ ExactPrefilter
  \/ JudgeRequest
  \/ JudgeReply
  \/ BuildWeightMatrix
  \/ FindMatching
  \/ Aggregate
  \/ CollectRelationshipPools
  \/ ExactRelationshipPrefilter
  \/ HeuristicClassify
  \/ BuildRelationshipWeightMatrix
  \/ FindRelationshipMatching
  \/ AggregateRelationships

Spec == Init /\ [][Next]_vars

\* the evaluation up to the exact-match prefilter
PrefilterNext ==
  \/ CollectPools
  \/ ExactPrefilter
  \/ CollectRelationshipPools
  \/ ExactRelationshipPrefilter

PrefilterSpec == Init /\ [][PrefilterNext]_vars

\* the evaluation up to the weight matrix
MatrixNext ==
  \/ CollectPools
  \/ ExactPrefilter
  \/ JudgeRequest
  \/ JudgeReply
  \/ BuildWeightMatrix
  \/ CollectRelationshipPools
  \/ ExactRelationshipPrefilter
  \/ HeuristicClassify
  \/ BuildRelationshipWeightMatrix

MatrixSpec == Init /\ [][MatrixNext]_vars

\* the evaluation of the relationship task alone
RelationshipInit == Init /\ task = "relationship_extraction"

RelationshipNext ==
  \/ CollectRelationshipPools
  \/ ExactRelationshipPrefilter
  \/ HeuristicClassify
  \/ BuildRelationshipWeightMatrix
  \/ FindRelationshipMatching
  \/ AggregateRelationships

RelationshipSpec == RelationshipInit /\ [][RelationshipNext]_vars

\* a relationship evaluation that its caller repeats once
TwiceInit == Init /\ task = "relationship_extraction"

TwiceNext ==
  \/ CollectRelationshipPools
  \/ ExactRelationshipPrefilter
  \/ HeuristicClassify
  \/ BuildRelationshipWeightMatrix
  \/ FindRelationshipMatching
  \/ AggregateRelationships
  \/ RunAgain

TwiceSpec == TwiceInit /\ [][TwiceNext]_vars

(***************************************************************************)
(* Properties.                                                             *)
(***************************************************************************)
\* how often v occurs in the sequence xs
count(xs, v) == Cardinality({k \in DOMAIN xs : xs[k] = v})


\* the pooled predictions as the result arrays show them: the strings
\* themselves, or the JSON texts of the relationships
shownPredictions ==
  IF task = "entity_extraction" THEN allPredictions ELSE stringifyAll(allPredictions)

\* C1 (partition): in every returned result the four arrays together hold
\* as many items as there are pooled predictions, and every predicted
\* string occurs in them exactly as often as it occurs in the pool.
Thm_C1_Partition ==
  outcome = "returned" =>
    /\ Len(result.exact) + Len(result.semantic) + Len(result.partial)
         + Len(result.noMatch) = Len(allPredictions)
    /\ \A v \in Range(shownPredictions) :
         count(result.exact, v) + count(result.semantic, v)
           + count(result.partial, v) + count(result.noMatch, v)
         = count(shownPredictions, v)

\* a returned result with a semantic, a partial and no other item
Witness_C1 ==
  /\ outcome = "returned"
  /\ Len(result.semantic) = 1
  /\ Len(result.partial) = 1
  /\ Len(allPredictions) = 2

\* C2 (conservation): in every returned result TPw + FNw = G and
\* TPw + FPw = P (all in quarters), also when G = 0 or P = 0.
Thm_C2_Conservation ==
  outcome = "returned" =>
    /\ result.TPw + result.FNw = 4 * Len(allGoldData)
    /\ result.TPw + result.FPw = 4 * Len(allPredictions)

\* a result returned for an empty gold pool and a non-empty predicted pool
Witness_C2 ==
  /\ outcome = "returned"
  /\ Len(allGoldData) = 0
  /\ Len(allPredictions) > 0

\* C3 (1:1): no goldIndex and no predIndex occurs in two accepted pairs.
Thm_C3_OneToOne ==
  matchingResult # None =>
    \A j, k \in DOMAIN matchingResult.matches :
      j # k => /\ matchingResult.matches[j].goldIndex # matchingResult.matches[k].goldIndex
               /\ matchingResult.matches[j].predIndex # matchingResult.matches[k].predIndex

\* a matching in which a candidate was passed over
Witness_C3 ==
  /\ matchingResult # None
  /\ Len(matchingResult.matches) >= 1
  /\ Len(potentialMatchesFrom(weightMatrix, 1, 1)) > Len(matchingResult.matches)

\* the largest total weight of a 1:1 assignment of the rows g.. to columns
\* outside usedPred
RECURSIVE maxAssignmentWeight(_, _, _)
maxAssignmentWeight(weights, g, usedPred) ==
  IF g > Len(weights) THEN 0
  ELSE LET skip == maxAssignmentWeight(weights, g + 1, usedPred)
           take == {weights[g][p] + maxAssignmentWeight(weights, g + 1, usedPred \cup {p}) :
                      p \in (DOMAIN weights[g]) \ usedPred}
       IN  CHOOSE m \in take \cup {skip} : \A x \in take \cup {skip} : x <= m

\* C4 (optimality), as claimed: the total weight of the returned matching
\* is the maximum over all 1:1 assignments.
CE_C4_Optimal ==
  matchingResult # None =>
    matchingResult.totalWeight = maxAssignmentWeight(weightMatrix, 1, {})

\* fractions in [0, 1]
inUnitInterval(x) == x.d > 0 /\ 0 <= x.n /\ x.n <= x.d

\* C5: TPw <= min(G, P), FPw >= 0, FNw >= 0, and precision, recall and f1
\* lie in [0, 1].
Thm_C5_Bounded ==
  outcome = "returned" =>
    /\ result.TPw <= 4 * Len(allGoldData)
    /\ result.TPw <= 4 * Len(allPredictions)
    /\ result.FPw >= 0
    /\ result.FNw >= 0
    /\ inUnitInterval(result.precision)
    /\ inUnitInterval(result.recall)
    /\ inUnitInterval(result.f1)

\* every gold item is matched exactly and predictions are left over
Witness_C5 ==
  /\ outcome = "returned"
  /\ Len(allGoldData) > 0
  /\ result.TPw = 4 * Len(allGoldData)
  /\ Len(allPredictions) > Len(allGoldData)

\* the cell a classifier pair resolves to in the current evaluation
cellOf(pair) ==
  IF task = "entity_extraction"
  THEN resolvePair(pair, allPredictions, allGoldData,
                   exactMatchResult.goldIndices, exactMatchResult.predIndices)
  ELSE resolveRelationshipPair(pair, allPredictions, allGoldData,
                               exactMatchResult.goldIndices, exactMatchResult.predIndices)

\* a semantic pair and a partial pair resolve to the same cell (g, p)
sameCell(semanticPair, partialPair, g, p) ==
  /\ cellOf(semanticPair).found /\ cellOf(partialPair).found
  /\ cellOf(semanticPair).g = g /\ cellOf(semanticPair).p = p
  /\ cellOf(partialPair).g = g /\ cellOf(partialPair).p = p

\* C6 (dominance): a cell that a semantic and a partial pair both resolve
\* to holds 0.75 in the finished matrix.
Thm_C6_Dominance ==
  weightMatrix # None =>
    \A i \in DOMAIN classified.semanticPairs :
      LET semanticCell == cellOf(classified.semanticPairs[i])
      IN  semanticCell.found =>
            \A j \in DOMAIN classified.partialPairs :
              LET partialCell == cellOf(classified.partialPairs[j])
              IN  (/\ partialCell.found
                   /\ partialCell.g = semanticCell.g
                   /\ partialCell.p = semanticCell.p)
                    => weightMatrix[semanticCell.g][semanticCell.p] = WSemantic

\* a finished matrix with such a cell
Witness_C6 ==
  /\ weightMatrix # None
  /\ \E i \in DOMAIN classified.semanticPairs, j \in DOMAIN classified.partialPairs :
       \E g \in DOMAIN weightMatrix : \E p \in DOMAIN weightMatrix[g] :
         sameCell(classified.semanticPairs[i], classified.partialPairs[j], g, p)

\* C7 (frame): every cell of an exact match holds 1.0 in the finished
\* matrix.
Thm_C7_ExactKept ==
  weightMatrix # None =>
    \A k \in DOMAIN exactMatchResult.exactMatches :
      weightMatrix[exactMatchResult.exactMatches[k].goldIndex]
                  [exactMatchResult.exactMatches[k].predIndex] = WExact

\* the text of a field of a pair, <<>> when it is not a string
fieldText(pair, field) ==
  IF pair.t = "obj" /\ getProperty(pair, <<field>>).t = "str"
  THEN getProperty(pair, <<field>>).s ELSE <<>>

\* a pair names an exactly matched gold item and an exactly matched
\* prediction
namesExactItems(pair) ==
  \E k \in DOMAIN exactMatchResult.exactMatches :
    /\ normalizeString(fieldText(pair, "gold"))
         = normalizeString(allGoldData[exactMatchResult.exactMatches[k].goldIndex])
    /\ normalizeString(fieldText(pair, "predicted"))
         = normalizeString(allPredictions[exactMatchResult.exactMatches[k].predIndex])

\* a finished matrix with an exact cell, built from a classifier result
\* that names the exactly matched items
Witness_C7 ==
  /\ task = "entity_extraction"
  /\ weightMatrix # None
  /\ Len(exactMatchResult.exactMatches) > 0
  /\ \E i \in DOMAIN classified.semanticPairs :
       namesExactItems(classified.semanticPairs[i])
  /\ \E j \in DOMAIN classified.partialPairs :
       namesExactItems(classified.partialPairs[j])

\* a classifier pair of the expected shape {gold: string, predicted: string}
wellFormedPair(pair) ==
  /\ pair.t = "obj"
  /\ getProperty(pair, <<"gold">>).t = "str"
  /\ getProperty(pair, <<"predicted">>).t = "str"

\* the response holds a JSON object whose two keys are arrays of
\* well-formed pairs
wellFormedResponse(content) ==
  LET doc == parseJudgeJson(content)
      sem == getProperty(doc.val, <<"semantic_match_pairs">>)
      par == getProperty(doc.val, <<"partial_match_pairs">>)
  IN  /\ doc.ok
      /\ doc.val.t = "obj"
      /\ sem.t = "arr" /\ \A k \in DOMAIN sem.items : wellFormedPair(sem.items[k])
      /\ par.t = "arr" /\ \A k \in DOMAIN par.items : wellFormedPair(par.items[k])

\* the result of the evaluation when the classifier finds nothing
resultWithoutPairs ==
  aggregate(
    findMaxWeightMatching(
      buildOptimizedWeightMatrix(allPredictions, allGoldData,
        exactMatchResult.exactMatches, <<>>, <<>>,
        exactMatchResult.goldIndices, exactMatchResult.predIndices).weights,
      Len(allGoldData), Len(allPredictions)),
    allPredictions, allGoldData)

judgeAnswered == judgeResponse # NoResponse

\* C8 (fail-soft), as claimed: an evaluation whose judge response is
\* malformed returns, with the result of empty semantic and partial sets.
CE_C8_MalformedNeverRaises ==
  (pc = "done" /\ judgeAnswered /\ judgeResponse.success
     /\ ~wellFormedResponse(judgeResponse.content))
    => /\ outcome = "returned"
       /\ result = resultWithoutPairs

\* the retry policy of the extraction calls
maxRetries == 3
baseDelay == 1000

\* C9 (retry), as claimed: a judge call that failed has been retried, so
\* the classifier gives up only after maxRetries + 1 requests.
CE_C9_JudgeRetried ==
  (judgeAnswered /\ ~judgeResponse.success) =>
    Len(judgeRequests) = maxRetries + 1

\* C10 (escalation), as claimed: an evaluation whose judge call failed
\* does not return metrics, it fails.
CE_C10_FailureSurfaced ==
  (pc = "done" /\ judgeAnswered /\ ~judgeResponse.success) =>
    outcome = "thrown"

\* the evaluation is past its classification step
pastClassifier == pc \in {"awaitJudge", "build", "match", "aggregate", "done"}

\* the prefilter has left unmatched items on both sides
judgeNeeded ==
  /\ exactMatchResult # None
  /\ Len(exactMatchResult.unmatchedPredicted) > 0
  /\ Len(exactMatchResult.unmatchedGold) > 0

\* the strings of a JSON text that holds an array of strings
stringsOf(text) ==
  LET parsed == JSONParse(text).val
  IN  [k \in DOMAIN parsed.items |-> parsed.items[k].s]

\* the items of a pool at the positions left unmatched by the prefilter
remainder(pool, indices) == [k \in DOMAIN indices |-> pool[indices[k]]]

\* C13: an entity evaluation sends at most one judge request; once it is
\* past the classification step it has sent none when an unmatched pool is
\* empty (or a pool was empty from the start) and exactly one otherwise, and
\* that request lists the unmatched remainder of the pools of all blocks.
Thm_C13_JudgeOncePerRun ==
  task = "entity_extraction" =>
    /\ Len(judgeRequests) <= 1
    /\ pastClassifier => Len(judgeRequests) = (IF judgeNeeded THEN 1 ELSE 0)
    /\ \A k \in DOMAIN judgeRequests :
         /\ stringsOf(judgeRequests[k].predicted)
              = remainder(allPredictions, exactMatchResult.predIndices)
         /\ stringsOf(judgeRequests[k].gold)
              = remainder(allGoldData, exactMatchResult.goldIndices)
         /\ Len(exactMatchResult.predIndices) + Len(exactMatchResult.exactMatches)
              = Len(allPredictions)
         /\ Len(exactMatchResult.goldIndices) + Len(exactMatchResult.exactMatches)
              = Len(allGoldData)

\* a finished evaluation over two text blocks that sent its one request
\* for two unmatched predictions, after an exact match
Witness_C13 ==
  /\ task = "entity_extraction"
  /\ numBlocks = 2
  /\ pc = "done"
  /\ Len(judgeRequests) = 1
  /\ Len(exactMatchResult.exactMatches) = 1
  /\ Len(exactMatchResult.unmatchedPredicted) = 2

\* the positions of a pool of n items that no exact match has paired, where
\* side is "goldIndex" or "predIndex"
unpaired(n, side) ==
  (1..n) \ {exactMatchResult.exactMatches[k][side] :
              k \in DOMAIN exactMatchResult.exactMatches}

\* the items of a pool at the positions of the set `positions`, in
\* ascending order of position
RECURSIVE itemsAt(_, _, _)
itemsAt(pool, positions, from) ==
  IF from > Len(pool) THEN <<>>
  ELSE (IF from \in positions THEN <<pool[from]>> ELSE <<>>)
       \o itemsAt(pool, positions, from + 1)

\* C14: whenever a judge request has been sent the prefilter has completed,
\* and the request lists exactly the items at the positions that no exact
\* match has paired, so no exactly matched position is sent.
Thm_C14_RequestAfterPrefilter ==
  \A k \in DOMAIN judgeRequests :
    /\ exactMatchResult # None
    /\ stringsOf(judgeRequests[k].predicted)
         = itemsAt(allPredictions, unpaired(Len(allPredictions), "predIndex"), 1)
    /\ stringsOf(judgeRequests[k].gold)
         = itemsAt(allGoldData, unpaired(Len(allGoldData), "goldIndex"), 1)

\* a request was sent for a prediction whose text equals that of an exactly
\* matched prediction at another position
Witness_C14 ==
  /\ pc = "awaitJudge"
  /\ Len(judgeRequests) = 1
  /\ \E k \in DOMAIN exactMatchResult.exactMatches :
       allPredictions[exactMatchResult.exactMatches[k].predIndex]
         \in Range(exactMatchResult.unmatchedPredicted)

\* two cells of one row of the weight matrix hold the same positive weight
tiedRow ==
  /\ weightMatrix # None
  /\ \E g \in DOMAIN weightMatrix : \E p1, p2 \in DOMAIN weightMatrix[g] :
       p1 # p2 /\ weightMatrix[g][p1] > 0 /\ weightMatrix[g][p1] = weightMatrix[g][p2]

isQuotient(x, n, d) == x.d > 0 /\ d > 0 /\ x.n * d = n * x.d
isZero(x) == x.d > 0 /\ x.n = 0

\* x is 2pr / (p + r), and 0 when p + r is 0
isHarmonicMean(x, p, r) ==
  IF p.n * r.d + r.n * p.d = 0
  THEN isZero(x)
  ELSE /\ x.d > 0 /\ p.d > 0 /\ r.d > 0
       /\ x.n * (p.n * r.d + r.n * p.d) = 2 * p.n * r.n * x.d

\* C17: in every returned result precision is TPw / P (0 when P = 0), recall
\* is TPw / G (0 when G = 0), f1 is 2 * precision * recall / (precision +
\* recall) (0 when that sum is 0), all three finite; with an empty pool TPw is
\* 0, FNw is G and FPw is P.
Thm_C17_MetricFormulas ==
  outcome = "returned" =>
    LET G == Len(allGoldData)
        P == Len(allPredictions)
    IN  /\ IF P = 0 THEN isZero(result.precision)
                    ELSE isQuotient(result.precision, result.TPw, WExact * P)
        /\ IF G = 0 THEN isZero(result.recall)
                    ELSE isQuotient(result.recall, result.TPw, WExact * G)
        /\ isHarmonicMean(result.f1, result.precision, result.recall)
        /\ (P = 0 \/ G = 0) =>
              /\ result.TPw = 0
              /\ result.FNw = WExact * G
              /\ result.FPw = WExact * P

\* three gold items and no prediction
Witness_C17 ==
  /\ outcome = "returned"
  /\ Len(allGoldData) = 3
  /\ Len(allPredictions) = 0
  /\ isZero(result.precision) /\ isZero(result.recall) /\ isZero(result.f1)
  /\ result.TPw = 0 /\ result.FNw = WExact * 3 /\ result.FPw = 0

\* the positions of the accepted matches of one type
matchesOfType(type) ==
  {k \in DOMAIN matchingResult.matches : matchingResult.matches[k].type = type}

\* the array of one type holds the predicted items of the matches of that
\* type, in the order in which the matches were accepted
holdsItemsOfType(array, type) ==
  /\ Len(array) = Cardinality(matchesOfType(type))
  /\ \A k \in matchesOfType(type) :
       array[Cardinality({j \in matchesOfType(type) : j <= k})]
         = shownPredictions[matchingResult.matches[k].predIndex]

\* C18: an accepted match is exact iff its weight is 1.0, semantic iff 0.75,
\* partial iff 0.5; its predicted item is in the result array of its type;
\* and TPw is 1.0 * |exact| + 0.75 * |semantic| + 0.5 * |partial|.
Thm_C18_TypeFromWeight ==
  outcome = "returned" =>
    /\ result.TPw = WExact * Len(result.exact) + WSemantic * Len(result.semantic)
                      + WPartial * Len(result.partial)
    /\ matchingResult # None =>
          /\ \A k \in DOMAIN matchingResult.matches :
               LET match == matchingResult.matches[k]
               IN  /\ match.type \in {"exact", "semantic", "partial"}
                   /\ match.type = "exact" <=> match.weight = WExact
                   /\ match.type = "semantic" <=> match.weight = WSemantic
                   /\ match.type = "partial" <=> match.weight = WPartial
          /\ holdsItemsOfType(result.exact, "exact")
          /\ holdsItemsOfType(result.semantic, "semantic")
          /\ holdsItemsOfType(result.partial, "partial")

\* a result with one match of every type
Witness_C18 ==
  /\ outcome = "returned"
  /\ matchingResult # None
  /\ Len(result.exact) = 1 /\ Len(result.semantic) = 1 /\ Len(result.partial) = 1
  /\ result.TPw = WExact + WSemantic + WPartial

\* gold item g and predicted item q are equal after lowercasing and
\* trimming; relationships by cause and effect alone
equalItems(g, q) ==
  IF task = "entity_extraction"
  THEN trim(toLowerCase(allGoldData[g])) = trim(toLowerCase(allPredictions[q]))
  ELSE /\ trim(toLowerCase(allGoldData[g].cause)) = trim(toLowerCase(allPredictions[q].cause))
       /\ trim(toLowerCase(allGoldData[g].effect)) = trim(toLowerCase(allPredictions[q].effect))

\* the predicted items gold item g can still take: equal to it and not
\* paired with an earlier gold item
freeEqual(g) ==
  {q \in DOMAIN allPredictions :
     /\ equalItems(g, q)
     /\ ~\E k \in DOMAIN exactMatchResult.exactMatches :
          /\ exactMatchResult.exactMatches[k].goldIndex < g
          /\ exactMatchResult.exactMatches[k].predIndex = q}

\* the positions of the exact matches of gold item g
exactMatchesOf(g) ==
  {k \in DOMAIN exactMatchResult.exactMatches :
     exactMatchResult.exactMatches[k].goldIndex = g}

\* C20: the prefilter takes the gold items in their order; a gold item is
\* paired with the lowest-index equal predicted item that no earlier gold
\* item has taken, and is left unmatched iff there is none. (The exact
\* matches are looked at from the prefilter until the weight matrix is
\* built; no later step changes them.)
Thm_C20_GreedyFirstCome ==
  (exactMatchResult # None /\ weightMatrix = None) =>
    /\ \A k1, k2 \in DOMAIN exactMatchResult.exactMatches :
         k1 < k2 => exactMatchResult.exactMatches[k1].goldIndex
                      < exactMatchResult.exactMatches[k2].goldIndex
    /\ \A g \in DOMAIN allGoldData :
         LET free == freeEqual(g)
             taken == exactMatchesOf(g)
             unmatched == \E k \in DOMAIN exactMatchResult.goldIndices :
                            exactMatchResult.goldIndices[k] = g
         IN  IF free = {}
             THEN taken = {} /\ unmatched
             ELSE /\ Cardinality(taken) = 1
                  /\ \A k \in taken :
                       /\ exactMatchResult.exactMatches[k].predIndex \in free
                       /\ \A q \in free : exactMatchResult.exactMatches[k].predIndex <= q
                  /\ ~unmatched

\* two equal gold relationships without a location take the first and the
\* third prediction, which carry a location and a confidence; the second
\* prediction is not equal to them
Witness_C20 ==
  /\ task = "relationship_extraction"
  /\ exactMatchResult # None
  /\ Len(allGoldData) = 2
  /\ allGoldData[1] = allGoldData[2]
  /\ allGoldData[1].location = Absent
  /\ Len(allPredictions) = 3
  /\ allPredictions[1].location # Absent
  /\ allPredictions[1].confidence # Absent
  /\ Len(exactMatchResult.exactMatches) = 2
  /\ exactMatchResult.exactMatches[1].predIndex = 1
  /\ exactMatchResult.exactMatches[2].predIndex = 3

\* cell (g, p) is an accepted pair of the matching
accepted(g, p) ==
  \E k \in DOMAIN matchingResult.matches :
    matchingResult.matches[k].goldIndex = g /\ matchingResult.matches[k].predIndex = p

\* cell (g1, p1) is scanned before cell (g2, p2): heavier, or as heavy and
\* earlier in row-major order
scannedBefore(g1, p1, g2, p2) ==
  \/ weightMatrix[g1][p1] > weightMatrix[g2][p2]
  \/ /\ weightMatrix[g1][p1] = weightMatrix[g2][p2]
     /\ (g1 < g2 \/ (g1 = g2 /\ p1 < p2))

\* C21: the accepted pairs are the positive cells, listed in descending
\* weight with ties in row-major order; a positive cell is accepted iff no
\* accepted pair scanned before it is in its row or its column; so a
\* positive cell that is not accepted has an accepted pair of at least its
\* weight in its row or column. (The matching is looked at when it has just
\* been computed; no later step changes it.)
Thm_C21_GreedyByWeight ==
  (matchingResult # None /\ pc = "aggregate") =>
    /\ \A k \in DOMAIN matchingResult.matches :
         LET match == matchingResult.matches[k]
         IN  /\ weightMatrix[match.goldIndex][match.predIndex] = match.weight
             /\ match.weight > 0
             /\ \A j \in DOMAIN matchingResult.matches :
                  j < k => scannedBefore(matchingResult.matches[j].goldIndex,
                                         matchingResult.matches[j].predIndex,
                                         match.goldIndex, match.predIndex)
    /\ \A g \in DOMAIN weightMatrix : \A p \in DOMAIN weightMatrix[g] :
         weightMatrix[g][p] > 0 =>
           LET blocked ==
                 \E k \in DOMAIN matchingResult.matches :
                   LET match == matchingResult.matches[k]
                   IN  /\ (match.goldIndex = g) # (match.predIndex = p)
                       /\ scannedBefore(match.goldIndex, match.predIndex, g, p)
           IN  /\ accepted(g, p) <=> ~blocked
               /\ ~accepted(g, p) =>
                    \E k \in DOMAIN matchingResult.matches :
                      /\ \/ matchingResult.matches[k].goldIndex = g
                         \/ matchingResult.matches[k].predIndex = p
                      /\ matchingResult.matches[k].weight >= weightMatrix[g][p]

\* a cell is passed over for an equally heavy cell of its row that comes
\* first in the enumeration
Witness_C21 ==
  /\ matchingResult # None
  /\ pc = "aggregate"
  /\ \E g \in DOMAIN weightMatrix : \E p1, p2 \in DOMAIN weightMatrix[g] :
       /\ p1 < p2
       /\ weightMatrix[g][p1] > 0
       /\ weightMatrix[g][p1] = weightMatrix[g][p2]
       /\ accepted(g, p1)
       /\ ~accepted(g, p2)

\* the texts of an entity pair equal, after lowercasing and trimming, an
\* item the prefilter left unmatched, on the gold and on the predicted side
namesUnmatchedItems(pair) ==
  /\ \E k \in DOMAIN exactMatchResult.goldIndices :
       trim(toLowerCase(allGoldData[exactMatchResult.goldIndices[k]]))
         = trim(toLowerCase(fieldText(pair, "gold")))
  /\ \E k \in DOMAIN exactMatchResult.predIndices :
       trim(toLowerCase(allPredictions[exactMatchResult.predIndices[k]]))
         = trim(toLowerCase(fieldText(pair, "predicted")))

\* the classifier pairs, semantic first
classifierPairs == classified.semanticPairs \o classified.partialPairs

\* some pair of a sequence resolves to cell (g, p), cells being the cells
\* its pairs resolve to
resolvesTo(cells, g, p) ==
  \E k \in DOMAIN cells : cells[k].found /\ cells[k].g = g /\ cells[k].p = p

\* the matrix has been built, or the build has thrown
justBuilt == pc = "match" \/ (pc = "done" /\ outcome = "thrown")

\* C22: a classifier pair whose gold or predicted text equals no unmatched
\* item resolves to no cell and raises nothing; the build throws only for a
\* pair that is not of the shape {gold: string, predicted: string}; and the
\* finished matrix holds 1.0 in the exact cells, 0.75 where a semantic pair
\* resolves, 0.5 where only a partial pair resolves and 0 elsewhere, so a
\* dropped pair changes no cell and the other pairs are applied. (The
\* matrix is looked at when it has just been built.)
Thm_C22_UnresolvedPairDropped ==
  justBuilt =>
    LET semanticCells == [k \in DOMAIN classified.semanticPairs |->
                            cellOf(classified.semanticPairs[k])]
        partialCells == [k \in DOMAIN classified.partialPairs |->
                           cellOf(classified.partialPairs[k])]
        cells == semanticCells \o partialCells
        exactCells == {<<exactMatchResult.exactMatches[k].goldIndex,
                         exactMatchResult.exactMatches[k].predIndex>> :
                         k \in DOMAIN exactMatchResult.exactMatches}
    IN  /\ task = "entity_extraction" =>
             /\ \A k \in DOMAIN classifierPairs :
                  (wellFormedPair(classifierPairs[k]) /\ ~namesUnmatchedItems(classifierPairs[k]))
                    => cells[k] = [throws |-> FALSE, found |-> FALSE, g |-> 0, p |-> 0]
             /\ outcome = "thrown" =>
                  \E k \in DOMAIN classifierPairs : ~wellFormedPair(classifierPairs[k])
        /\ pc = "match" =>
             \A g \in DOMAIN weightMatrix : \A p \in DOMAIN weightMatrix[g] :
               weightMatrix[g][p] =
                 IF <<g, p>> \in exactCells THEN WExact
                 ELSE IF resolvesTo(semanticCells, g, p) THEN WSemantic
                 ELSE IF resolvesTo(partialCells, g, p) THEN WPartial
                 ELSE 0

\* a matrix built from a semantic pair that names an exactly matched item
\* and is dropped, a partial pair with an unknown text that is dropped, and
\* a semantic pair that is applied
Witness_C22 ==
  /\ task = "entity_extraction"
  /\ pc = "match"
  /\ \E k \in DOMAIN classified.semanticPairs :
       /\ wellFormedPair(classified.semanticPairs[k])
       /\ ~namesUnmatchedItems(classified.semanticPairs[k])
  /\ \E k \in DOMAIN classified.partialPairs :
       /\ wellFormedPair(classified.partialPairs[k])
       /\ fieldText(classified.partialPairs[k], "predicted") = <<"zz">>
  /\ \E g \in DOMAIN weightMatrix : \E p \in DOMAIN weightMatrix[g] :
       weightMatrix[g][p] = WSemantic

\* |A n B| / |A u B| of two word sets, 0 when both are empty
jaccard(A, B) ==
  IF A \cup B = {} THEN Zero ELSE Frac(Cardinality(A \cap B), Cardinality(A \cup B))

\* the similarity of unmatched prediction p and unmatched gold g: the mean
\* of the Jaccard similarities of their causes and of their effects
similarityOf(p, g) ==
  LET prediction == exactMatchResult.unmatchedPredicted[p]
      gold == exactMatchResult.unmatchedGold[g]
      causes == jaccard(wordSet(prediction.cause), wordSet(gold.cause))
      effects == jaccard(wordSet(prediction.effect), wordSet(gold.effect))
  IN  fracMul(Frac(1, 2), fracAdd(causes, effects))

\* fraction x is greater than fraction y
greater(x, y) == x.n * y.d > y.n * x.d

\* the similarities of the unmatched predictions (rows) and the unmatched
\* gold relationships
similarities ==
  [p \in DOMAIN exactMatchResult.unmatchedPredicted |->
     [g \in DOMAIN exactMatchResult.unmatchedGold |-> similarityOf(p, g)]]

\* the JSON texts of the unmatched gold relationships and predictions
unmatchedGoldTexts ==
  [g \in DOMAIN exactMatchResult.unmatchedGold |->
     stringifyRelationship(exactMatchResult.unmatchedGold[g])]
unmatchedPredictedTexts ==
  [p \in DOMAIN exactMatchResult.unmatchedPredicted |->
     stringifyRelationship(exactMatchResult.unmatchedPredicted[p])]

\* the gold positions that the predictions before p have not taken
freeGold(choice, p) ==
  DOMAIN exactMatchResult.unmatchedGold \ {choice[q] : q \in 1..(p - 1)}

\* choice[p] is the gold position prediction p takes, 0 for none: the first
\* free gold of the highest similarity s, provided s > 0.4
greedyChoice(choice, sim) ==
  \A p \in DOMAIN choice :
    LET free == freeGold(choice, p)
    IN  IF choice[p] = 0
        THEN \A g \in free : ~greater(sim[p][g], Frac(4, 10))
        ELSE /\ choice[p] \in free
             /\ greater(sim[p][choice[p]], Frac(4, 10))
             /\ \A g \in free :
                  /\ ~greater(sim[p][g], sim[p][choice[p]])
                  /\ g < choice[p] => greater(sim[p][choice[p]], sim[p][g])

\* the pairs of the predictions in the set `which`, in pool order
RECURSIVE pairsOfChoice(_, _, _, _, _)
pairsOfChoice(choice, p, which, goldTexts, predictedTexts) ==
  IF p > Len(choice) THEN <<>>
  ELSE (IF p \in which
        THEN <<[gold |-> goldTexts[choice[p]], predicted |-> predictedTexts[p]]>>
        ELSE <<>>)
       \o pairsOfChoice(choice, p + 1, which, goldTexts, predictedTexts)

\* the heuristic classifier has just run (or was skipped)
justClassified == task = "relationship_extraction" /\ pc = "build"

\* C23: the pairs of the heuristic classifier are those of the greedy
\* choice: each unmatched prediction, in pool order, takes the first free
\* unmatched gold of the highest similarity s when s > 0.4, as a semantic
\* pair when s > 0.7 and as a partial pair otherwise, and takes none (and
\* uses up no gold) when s <= 0.4.
Thm_C23_HeuristicThresholds ==
  justClassified =>
    LET sim == similarities
        goldTexts == unmatchedGoldTexts
        predictedTexts == unmatchedPredictedTexts
    IN  \E choice \in [DOMAIN exactMatchResult.unmatchedPredicted ->
                         {0} \cup DOMAIN exactMatchResult.unmatchedGold] :
          LET taking == {p \in DOMAIN choice : choice[p] # 0}
              semantic == {p \in taking : greater(sim[p][choice[p]], Frac(7, 10))}
          IN  /\ Cardinality(taking)
                   = Len(classified.semanticPairs) + Len(classified.partialPairs)
              /\ greedyChoice(choice, sim)
              /\ classified.semanticPairs
                   = pairsOfChoice(choice, 1, semantic, goldTexts, predictedTexts)
              /\ classified.partialPairs
                   = pairsOfChoice(choice, 1, taking \ semantic, goldTexts, predictedTexts)

\* three predictions and three gold relationships left by the prefilter:
\* one semantic pair, one partial pair, and a prediction without a pair
\* while a gold relationship is still free
Witness_C23 ==
  /\ justClassified
  /\ Len(exactMatchResult.unmatchedPredicted) = 3
  /\ Len(exactMatchResult.unmatchedGold) = 3
  /\ Len(classified.semanticPairs) = 1
  /\ Len(classified.partialPairs) = 1

\* the position of the closing brace that matches the opening brace before
\* position i when `depth` braces are open there, 0 if there is none
RECURSIVE matchingClose(_, _, _)
matchingClose(str, i, depth) ==
  IF i > Len(str) THEN 0
  ELSE IF str[i] = "{" THEN matchingClose(str, i + 1, depth + 1)
  ELSE IF str[i] = "}"
       THEN IF depth = 1 THEN i ELSE matchingClose(str, i + 1, depth - 1)
  ELSE matchingClose(str, i + 1, depth)

\* the first top-level object of a text: from the first opening brace to
\* the closing brace that matches it
topLevelObject(str) ==
  LET open == indexOfFrom(str, "{", 1)
      close == IF open = 0 THEN 0 ELSE matchingClose(str, open + 1, 1)
  IN  IF open = 0 \/ close = 0 THEN NoMatch ELSE Match(SubSeq(str, open, close))

\* C24 (object strategy), as claimed: from a judge response without a
\* fenced code block the extraction returns the first top-level object,
\* up to its matching closing brace, when that holds a quote character,
\* and null when no strategy matches.
CE_C24_WholeTopLevelObject ==
  (judgeAnswered /\ judgeResponse.success
     /\ ~includes(judgeResponse.content, Fence)) =>
    LET object == topLevelObject(judgeResponse.content)
        extractedJson == extractJsonFromResponse(judgeResponse.content)
    IN  /\ (object.found /\ includes(object.text, "\""))
              => extractedJson = Match(trim(object.text))
        /\ (~object.found /\ ~prefixMatch(judgeResponse.content).found)
              => extractedJson = NoMatch

\* what the prefilter and the builders compare an item by: the text of an
\* entity, the cause and the effect of a relationship, lowercased and
\* trimmed
itemKey(item) ==
  IF task = "entity_extraction" THEN trim(toLowerCase(item))
  ELSE <<trim(toLowerCase(item.cause)), trim(toLowerCase(item.effect))>>

goldKeys == [g \in DOMAIN allGoldData |-> itemKey(allGoldData[g])]
predictedKeys == [p \in DOMAIN allPredictions |-> itemKey(allPredictions[p])]

\* gold items g and h are equal after lowercasing and trimming
equalGold(g, h) == itemKey(allGoldData[g]) = itemKey(allGoldData[h])

\* the smaller of two numbers
least(a, b) == IF a <= b THEN a ELSE b

\* the prefilter has just run
justPrefiltered ==
  exactMatchResult # None /\ weightMatrix = None /\ judgeResponse = NoResponse

\* C25: the prefilter's exact matching is maximal. Every exact pair joins
\* equal items, no gold item left unmatched equals a predicted item left
\* unmatched, and for the normalized value of every gold item the number
\* of exact pairs of that value is the smaller of the number of gold
\* items and the number of predicted items of that value. (The exact
\* matches are looked at before the judge has answered; no later step
\* changes them.)
Thm_C25_PrefilterMaximal ==
  justPrefiltered =>
    LET exactMatches == exactMatchResult.exactMatches
        goldIndices == exactMatchResult.goldIndices
        predIndices == exactMatchResult.predIndices
        gold == goldKeys
        predicted == predictedKeys
    IN  /\ \A k \in DOMAIN exactMatches :
             gold[exactMatches[k].goldIndex] = predicted[exactMatches[k].predIndex]
        /\ \A i \in DOMAIN goldIndices : \A j \in DOMAIN predIndices :
             gold[goldIndices[i]] # predicted[predIndices[j]]
        /\ \A g \in DOMAIN gold :
             Cardinality({k \in DOMAIN exactMatches : gold[exactMatches[k].goldIndex] = gold[g]})
               = least(Cardinality({h \in DOMAIN gold : gold[h] = gold[g]}),
                       Cardinality({q \in DOMAIN predicted : predicted[q] = gold[g]}))

\* three equal gold entities and two predictions equal to them, of
\* another spelling: two exact pairs, one gold entity left unmatched
Witness_C25 ==
  /\ task = "entity_extraction"
  /\ justPrefiltered
  /\ Len(allGoldData) = 3
  /\ \A h \in DOMAIN allGoldData : equalGold(1, h)
  /\ Cardinality({q \in DOMAIN allPredictions : equalItems(1, q)}) = 2
  /\ \E q \in DOMAIN allPredictions : equalItems(1, q) /\ allPredictions[q] # allGoldData[1]
  /\ Len(exactMatchResult.exactMatches) = 2

\* the cells of a sequence of matches
cellsOf(matches) ==
  {<<matches[k].goldIndex, matches[k].predIndex>> : k \in DOMAIN matches}

\* the accepted matches of type exact
acceptedExact ==
  {<<matchingResult.matches[k].goldIndex, matchingResult.matches[k].predIndex>> :
     k \in matchesOfType("exact")}

\* C26: the matching engine accepts the exact pairs of the prefilter as
\* exact matches and no other pair: the row and the column of a 1.0 cell
\* hold no other non-zero cell, and the result lists as many exact items
\* as the prefilter found pairs, whatever the classifier returned.
Thm_C26_ExactPairsAccepted ==
  (matchingResult # None /\ pc \in {"aggregate", "done"}) =>
    /\ \A g \in DOMAIN weightMatrix : \A p \in DOMAIN weightMatrix[g] :
         weightMatrix[g][p] = WExact =>
           /\ \A q \in DOMAIN weightMatrix[g] : q # p => weightMatrix[g][q] = 0
           /\ \A h \in DOMAIN weightMatrix : h # g => weightMatrix[h][p] = 0
    /\ acceptedExact = cellsOf(exactMatchResult.exactMatches)
    /\ Cardinality(acceptedExact) = Len(exactMatchResult.exactMatches)
    /\ outcome = "returned" => Len(result.exact) = Len(exactMatchResult.exactMatches)

\* a returned result with one exact and one semantic item, from a
\* classifier output that names the exactly matched gold item
Witness_C26 ==
  /\ task = "entity_extraction"
  /\ outcome = "returned"
  /\ matchingResult # None
  /\ Len(result.exact) = 1
  /\ Len(result.semantic) = 1
  /\ \E i \in DOMAIN classified.semanticPairs :
       normalizeString(fieldText(classified.semanticPairs[i], "gold"))
         = normalizeString(allGoldData[exactMatchResult.exactMatches[1].goldIndex])

\* C27 (heuristic pairs kept), as claimed: in the relationship task every
\* pair of the heuristic classifier becomes an accepted match of its tier,
\* so the result lists as many semantic items as there are semantic pairs
\* and as many partial items as there are partial pairs.
CE_C27_EveryHeuristicPairAccepted ==
  (task = "relationship_extraction" /\ outcome = "returned" /\ matchingResult # None) =>
    /\ Len(result.semantic) = Len(classified.semanticPairs)
    /\ Len(result.partial) = Len(classified.partialPairs)

\* the predictions that take a gold position take different ones
oneToOne(choice) ==
  \A p, q \in DOMAIN choice : (p # q /\ choice[p] # 0) => choice[p] # choice[q]

\* C28: the output of the heuristic classifier is a one-to-one assignment
\* of positions: the semantic and the partial pairs are the pairs of an
\* assignment in which every unmatched prediction takes at most one
\* unmatched gold position, no gold position is taken twice, and every
\* assigned prediction is in one of the two sets only.
Thm_C28_HeuristicOneToOne ==
  justClassified =>
    /\ Len(classified.semanticPairs) + Len(classified.partialPairs)
         <= least(Len(exactMatchResult.unmatchedPredicted), Len(exactMatchResult.unmatchedGold))
    /\ LET goldTexts == unmatchedGoldTexts
           predictedTexts == unmatchedPredictedTexts
       IN  \E choice \in [DOMAIN exactMatchResult.unmatchedPredicted ->
                            {0} \cup DOMAIN exactMatchResult.unmatchedGold] :
             LET taking == {p \in DOMAIN choice : choice[p] # 0}
             IN  /\ Cardinality(taking)
                      = Len(classified.semanticPairs) + Len(classified.partialPairs)
                 /\ oneToOne(choice)
                 /\ \E semantic \in SUBSET taking :
                      /\ classified.semanticPairs
                           = pairsOfChoice(choice, 1, semantic, goldTexts, predictedTexts)
                      /\ classified.partialPairs
                           = pairsOfChoice(choice, 1, taking \ semantic, goldTexts,
                                           predictedTexts)

\* two unmatched predictions of which the first is closest to the first
\* gold relationship and the second is as close to it as to the other
\* one: the second takes the other one
Witness_C28 ==
  /\ justClassified
  /\ Len(exactMatchResult.unmatchedPredicted) = 2
  /\ Len(exactMatchResult.unmatchedGold) = 2
  /\ exactMatchResult.unmatchedGold[1] # exactMatchResult.unmatchedGold[2]
  /\ greater(similarityOf(1, 1), similarityOf(1, 2))
  /\ ~greater(similarityOf(2, 2), similarityOf(2, 1))
  /\ Len(classified.semanticPairs) + Len(classified.partialPairs) = 2

\* what one side of a classifier pair is compared by: an entity pair holds
\* the text itself, a relationship pair the JSON text of a relationship
pairKey(pair, side) ==
  IF task = "entity_extraction" THEN trim(toLowerCase(fieldText(pair, side)))
  ELSE itemKey(asRelationship(JSONParse(pair[side]).val))

\* the original positions the prefilter left unmatched
unmatchedGoldPositions == Range(exactMatchResult.goldIndices)
unmatchedPredPositions == Range(exactMatchResult.predIndices)

\* position i is the lowest of the positions whose key is `key`
lowestOf(positions, keys, key, i) ==
  /\ i \in positions
  /\ keys[i] = key
  /\ \A j \in positions : j < i => keys[j] # key

\* the pair has the shape the builder of the task expects
shapedPair(pair) == task = "entity_extraction" => wellFormedPair(pair)

\* C29: a classifier pair that names an unmatched gold item and an
\* unmatched predicted item resolves to one cell, that of the lowest
\* unmatched gold position and the lowest unmatched predicted position of
\* these texts, which then holds 0.75 for a semantic pair and at least 0.5
\* for a partial pair; the row of an unmatched gold item that has an equal
\* unmatched gold item before it, and the column of such a predicted item,
\* stay zero.
Thm_C29_LowestDuplicateCell ==
  pc = "match" =>
    LET gold == goldKeys
        predicted == predictedKeys
        unmatchedGold == unmatchedGoldPositions
        unmatchedPred == unmatchedPredPositions
    IN  /\ \A k \in DOMAIN classifierPairs :
             LET pair == classifierPairs[k]
             IN  shapedPair(pair) =>
                   LET goldKey == pairKey(pair, "gold")
                       predictedKey == pairKey(pair, "predicted")
                   IN  \A g \in unmatchedGold : \A p \in unmatchedPred :
                         (/\ lowestOf(unmatchedGold, gold, goldKey, g)
                          /\ lowestOf(unmatchedPred, predicted, predictedKey, p)) =>
                           /\ cellOf(pair) = [throws |-> FALSE, found |-> TRUE, g |-> g, p |-> p]
                           /\ weightMatrix[g][p] >= WPartial
                           /\ k <= Len(classified.semanticPairs)
                                => weightMatrix[g][p] = WSemantic
        /\ \A g \in unmatchedGold :
             (\E h \in unmatchedGold : h < g /\ gold[g] = gold[h]) =>
               \A p \in DOMAIN weightMatrix[g] : weightMatrix[g][p] = 0
        /\ \A p \in unmatchedPred :
             (\E q \in unmatchedPred : q < p /\ predicted[p] = predicted[q]) =>
               \A g \in DOMAIN weightMatrix : weightMatrix[g][p] = 0

\* two equal gold entities left unmatched and a semantic pair that names
\* them: the cell of the first holds 0.75
Witness_C29 ==
  /\ task = "entity_extraction"
  /\ pc = "match"
  /\ \E g, h \in unmatchedGoldPositions :
       /\ g < h
       /\ equalGold(g, h)
       /\ \E k \in DOMAIN classified.semanticPairs :
            /\ wellFormedPair(classified.semanticPairs[k])
            /\ lowestOf(unmatchedGoldPositions, goldKeys,
                        pairKey(classified.semanticPairs[k], "gold"), g)
            /\ \E p \in DOMAIN weightMatrix[g] : weightMatrix[g][p] = WSemantic

\* ---------------------------------------------------------------------
\* Two calls of calculateStandardSemanticMetrics in one event loop. A call
\* runs without interruption up to 'await evaluateSemanticMatches(...)' and
\* from the judge's reply to its return; the other call runs in between.
\* Every const and let of the function body is a local of the call.

MaxItemsEach == 1

\* the locals of the running call
currentRun ==
  [task |-> task, numBlocks |-> numBlocks, pc |-> pc,
   allPredictions |-> allPredictions, allGoldData |-> allGoldData,
   exactMatchResult |-> exactMatchResult, judgeRequests |-> judgeRequests,
   judgeResponse |-> judgeResponse, classified |-> classified,
   weightMatrix |-> weightMatrix, matchingResult |-> matchingResult,
   outcome |-> outcome, result |-> result]

\* a call that has pooled its one block
pooledRun(predictions, goldData) ==
  [task |-> "entity_extraction", numBlocks |-> 1, pc |-> "prefilter",
   allPredictions |-> predictions, allGoldData |-> goldData,
   exactMatchResult |-> None, judgeRequests |-> <<>>,
   judgeResponse |-> NoResponse, classified |-> EmptyPairs,
   weightMatrix |-> None, matchingResult |-> None,
   outcome |-> "pending", result |-> None]

\* the judge's replies while two calls are in flight: pairs, an entry that
\* is no pair, and a failed request
RepliesToEither ==
  {[success |-> TRUE, content |->
      judgeText(arrayText(<<pairText(qa, qc)>>),
                arrayText(<<pairText(qa, qd), pairText(qb, qc)>>))],
   [success |-> TRUE, content |->
      fenced(judgeText(arrayText(<<<<"null">>>>), arrayText(<<>>)))],
   [success |-> FALSE, content |-> <<>>]}

TwoRunsInit ==
  /\ RetryNotCalled
  /\ RunNotCalled
  /\ ProcNotCalled
  /\ previousResult = None
  /\ overlapped = FALSE
  /\ \E predictions \in SeqsUpTo(PredVocabulary, MaxItemsEach) \ {<<>>},
        goldData \in SeqsUpTo(GoldVocabulary, MaxItemsEach) \ {<<>>} :
       /\ task = "entity_extraction"
       /\ numBlocks = 1
       /\ pc = "prefilter"
       /\ allPredictions = predictions
       /\ allGoldData = goldData
  /\ exactMatchResult = None
  /\ judgeRequests = <<>>
  /\ judgeResponse = NoResponse
  /\ classified = EmptyPairs
  /\ weightMatrix = None
  /\ matchingResult = None
  /\ outcome = "pending"
  /\ result = None
  /\ \E predictions \in SeqsUpTo(PredVocabulary, MaxItemsEach) \ {<<>>},
        goldData \in SeqsUpTo(GoldVocabulary, MaxItemsEach) \ {<<>>} :
       otherRun = pooledRun(predictions, goldData)

\* JudgeReply with the replies of RepliesToEither
JudgeReplyToEither ==
  /\ task = "entity_extraction"
  /\ pc = "awaitJudge"
  /\ \E response \in RepliesToEither :
       /\ judgeResponse' = response
       /\ classified' = semanticResultOf(response)
  /\ pc' = "build"
  /\ UNCHANGED <<task, numBlocks, allPredictions, allGoldData, exactMatchResult,
                 judgeRequests, weightMatrix, matchingResult, outcome, result>>
  /\ UNCHANGED evalFrame

\* Switch with the exact-match result kept in one place for both calls
SwitchSharingExactMatches ==
  /\ otherRun # None
  /\ pc \in {"awaitJudge", "done"}
  /\ otherRun.pc # "done"
  /\ otherRun' = currentRun
  /\ task' = otherRun.task
  /\ numBlocks' = otherRun.numBlocks
  /\ pc' = otherRun.pc
  /\ allPredictions' = otherRun.allPredictions
  /\ allGoldData' = otherRun.allGoldData
  /\ judgeRequests' = otherRun.judgeRequests
  /\ judgeResponse' = otherRun.judgeResponse
  /\ classified' = otherRun.classified
  /\ weightMatrix' = otherRun.weightMatrix
  /\ matchingResult' = otherRun.matchingResult
  /\ outcome' = otherRun.outcome
  /\ result' = otherRun.result
  /\ overlapped' = (overlapped \/ (pc = "awaitJudge" /\ otherRun.pc = "awaitJudge"))
  /\ UNCHANGED <<exactMatchResult, retryVars, previousResult, runVars, procVars>>

\* the running call is suspended at the await or has returned, and the
\* event loop runs the other call: each call finds its own locals
Switch ==
  /\ otherRun # None
  /\ pc \in {"awaitJudge", "done"}
  /\ otherRun.pc # "done"
  /\ otherRun' = currentRun
  /\ task' = otherRun.task
  /\ numBlocks' = otherRun.numBlocks
  /\ pc' = otherRun.pc
  /\ allPredictions' = otherRun.allPredictions
  /\ allGoldData' = otherRun.allGoldData
  /\ exactMatchResult' = otherRun.exactMatchResult
  /\ judgeRequests' = otherRun.judgeRequests
  /\ judgeResponse' = otherRun.judgeResponse
  /\ classified' = otherRun.classified
  /\ weightMatrix' = otherRun.weightMatrix
  /\ matchingResult' = otherRun.matchingResult
  /\ outcome' = otherRun.outcome
  /\ result' = otherRun.result
  /\ overlapped' = (overlapped \/ (pc = "awaitJudge" /\ otherRun.pc = "awaitJudge"))
  /\ UNCHANGED <<retryVars, previousResult, runVars, procVars>>

TwoRunsNext ==
  \/ ExactPrefilter
  \/ JudgeRequest
  \/ JudgeReplyToEither
  \/ BuildWeightMatrix
  \/ FindMatching
  \/ Aggregate
  \/ Switch

TwoRunsSpec == TwoRunsInit /\ [][TwoRunsNext]_vars

\* Steps 4 and 5 of a call that runs alone, unless Step 3 has thrown
returnedOrThrown(built, predictions, goldData) ==
  IF built.throws
  THEN [outcome |-> "thrown", result |-> None]
  ELSE [outcome |-> "returned",
        result |-> aggregate(findMaxWeightMatching(built.weights, Len(goldData),
                                                  Len(predictions)),
                             predictions, goldData)]

\* Steps 3 to 5 of a call that runs alone
metricsFromPairs(predictions, goldData, exact, pairs) ==
  returnedOrThrown(
    buildOptimizedWeightMatrix(predictions, goldData, exact.exactMatches,
      pairs.semanticPairs, pairs.partialPairs, exact.goldIndices, exact.predIndices),
    predictions, goldData)

\* Step 2 of a call that runs alone
metricsFromExact(predictions, goldData, exact, response) ==
  metricsFromPairs(predictions, goldData, exact,
    IF Len(exact.unmatchedPredicted) > 0 /\ Len(exact.unmatchedGold) > 0
    THEN semanticResultOf(response) ELSE EmptyPairs)

\* what a call returns when it runs alone on these pools and the judge, if
\* asked, gives this response
metricsAlone(predictions, goldData, response) ==
  IF Len(predictions) = 0 \/ Len(goldData) = 0
  THEN [outcome |-> "returned", result |-> emptyResult(predictions, goldData)]
  ELSE metricsFromExact(predictions, goldData,
         calculateExactMatches(predictions, goldData), response)

\* a call has ended
ended(run) == run.pc = "done"

EvaluationNotCalled ==
  /\ NoCallers
  /\ task = "entity_extraction"
  /\ numBlocks = 0
  /\ pc = "idle"
  /\ allPredictions = <<>>
  /\ allGoldData = <<>>
  /\ exactMatchResult = None
  /\ judgeRequests = <<>>
  /\ judgeResponse = NoResponse
  /\ classified = EmptyPairs
  /\ weightMatrix = None
  /\ matchingResult = None
  /\ outcome = "pending"
  /\ result = None

FnValues == {[kind |-> "value", text |-> "first"], [kind |-> "value", text |-> "second"]}
FnRejections ==
  {[kind |-> "Error", text |-> "timeout"], [kind |-> "Error", text |-> "overloaded"],
   [kind |-> "other", text |-> "a thrown string"]}

\* Math.random() * 1000, in milliseconds
Jitters == {0, 999}

\* error instanceof Error ? error : new Error('Unknown error')
toError(error) ==
  IF error.kind = "Error" THEN error ELSE [kind |-> "Error", text |-> "Unknown error"]

\* Math.pow(2, i)
RECURSIVE pow2(_)
pow2(i) == IF i = 0 THEN 1 ELSE 2 * pow2(i - 1)

\* the loop condition i <= maxRetries
loopContinues(i, retries) == i <= retries

\* isLastAttempt one attempt late
isLastAttemptLate(i, retries) == i = retries + 1

\* the test i === maxRetries before the backoff
isLastAttempt(i, retries) == i = retries

\* the last invocation settles as s
settleLast(s) == [invocations EXCEPT ![Len(invocations)] = s]

RetryInit ==
  /\ EvaluationNotCalled
  /\ RunNotCalled
  /\ ProcNotCalled
  /\ argMaxRetries \in 0..MaxRetriesArg
  /\ argBaseDelay = baseDelay
  /\ attempt = 0
  /\ retryPc = "invoke"
  /\ invocations = <<>>
  /\ lastError = Unset
  /\ delays = <<>>
  /\ retryOutcome = settled("pending", Unset)

\* try { return await fn() }: fn is invoked
InvokeFn ==
  /\ retryPc = "invoke"
  /\ invocations' = Append(invocations, settled("pending", Unset))
  /\ retryPc' = "awaitFn"
  /\ UNCHANGED <<argMaxRetries, argBaseDelay, attempt, lastError, delays, retryOutcome>>
  /\ UNCHANGED retryFrame

\* FnResolves that goes on to the next attempt instead of returning
FnResolvesAndGoesOn ==
  /\ retryPc = "awaitFn"
  /\ \E value \in FnValues :
       /\ invocations' = settleLast(settled("resolved", value))
       /\ retryOutcome' = settled("resolved", value)
  /\ attempt' = attempt + 1
  /\ retryPc' = IF loopContinues(attempt', argMaxRetries) THEN "invoke" ELSE "done"
  /\ UNCHANGED <<argMaxRetries, argBaseDelay, lastError, delays>>
  /\ UNCHANGED retryFrame

\* fn resolves: retryWithBackoff returns the value
FnResolves ==
  /\ retryPc = "awaitFn"
  /\ \E value \in FnValues :
       /\ invocations' = settleLast(settled("resolved", value))
       /\ retryOutcome' = settled("resolved", value)
  /\ retryPc' = "done"
  /\ UNCHANGED <<argMaxRetries, argBaseDelay, attempt, lastError, delays>>
  /\ UNCHANGED retryFrame

\* fn rejects: the catch block; on the last attempt the loop is left and
\* lastError is thrown, otherwise the backoff timer is set
FnRejects ==
  /\ retryPc = "awaitFn"
  /\ \E error \in FnRejections :
       /\ invocations' = settleLast(settled("rejected", error))
       /\ lastError' = toError(error)
  /\ IF isLastAttempt(attempt, argMaxRetries)
     THEN /\ retryOutcome' = settled("rejected", lastError')
          /\ retryPc' = "done"
          /\ UNCHANGED delays
     ELSE /\ \E jitter \in Jitters :
               delays' = Append(delays, argBaseDelay * pow2(attempt) + jitter)
          /\ retryPc' = "sleep"
          /\ UNCHANGED retryOutcome
  /\ UNCHANGED <<argMaxRetries, argBaseDelay, attempt>>
  /\ UNCHANGED retryFrame

\* the timer fires: i++ and the loop condition; a loop that ends throws
\* lastError
BackoffElapsed ==
  /\ retryPc = "sleep"
  /\ attempt' = attempt + 1
  /\ IF loopContinues(attempt', argMaxRetries)
     THEN /\ retryPc' = "invoke"
          /\ UNCHANGED retryOutcome
     ELSE /\ retryOutcome' = settled("rejected", lastError)
          /\ retryPc' = "done"
  /\ UNCHANGED <<argMaxRetries, argBaseDelay, invocations, lastError, delays>>
  /\ UNCHANGED retryFrame

RetryNext ==
  \/ InvokeFn
  \/ FnResolves
  \/ FnRejects
  \/ BackoffElapsed

RetrySpec == RetryInit /\ [][RetryNext]_vars

\* C11: fn is invoked at most maxRetries + 1 times and at least once before
\* retryWithBackoff settles, every invocation before the last one has
\* rejected (none follows a resolved one), and retryWithBackoff resolves
\* exactly when the last invocation resolved, with its value.
Thm_C11_InvokedUntilResolved ==
  /\ Len(invocations) <= argMaxRetries + 1
  /\ retryPc = "done" => Len(invocations) >= 1
  /\ \A k \in 1..(Len(invocations) - 1) : invocations[k].state = "rejected"
  /\ \A k \in DOMAIN invocations :
       invocations[k].state = "resolved" => retryOutcome = invocations[k]
  /\ retryOutcome.state = "resolved" =>
       retryOutcome = invocations[Len(invocations)]

\* fn resolved on its fourth invocation, after three rejections
Witness_C11 ==
  /\ retryPc = "done"
  /\ argMaxRetries = 3
  /\ Len(invocations) = 4
  /\ retryOutcome.state = "resolved"

\* every one of the maxRetries + 1 invocations has rejected
allRejected ==
  /\ Len(invocations) = argMaxRetries + 1
  /\ \A k \in DOMAIN invocations : invocations[k].state = "rejected"

\* C12, as claimed: when every invocation rejects, retryWithBackoff rejects
\* with what the last invocation rejected with, and one delay fewer than
\* invocations has been waited.
CE_C12_RejectsWithLastRejection ==
  allRejected =>
    /\ retryPc = "done"
    /\ retryOutcome = invocations[Len(invocations)]
    /\ Len(delays) = Len(invocations) - 1

\* C12, amended: when every invocation rejects, retryWithBackoff rejects with
\* lastError of the last invocation, which is what that invocation rejected
\* with if it is an Error and Error('Unknown error') otherwise; one delay
\* fewer than invocations has been waited.
Thm_C12_RejectsWithLastError ==
  allRejected =>
    /\ retryPc = "done"
    /\ retryOutcome = settled("rejected", toError(invocations[Len(invocations)].value))
    /\ Len(delays) = Len(invocations) - 1

\* four rejections, the last with another Error than the first
Witness_C12 ==
  /\ allRejected
  /\ argMaxRetries = 3
  /\ invocations[1].value.kind = "Error"
  /\ invocations[4].value.kind = "Error"
  /\ invocations[1].value # invocations[4].value

\* ---------------------------------------------------------------------
\* runEvaluation of the useEvaluation hook: the loop over the selected
\* prompts and models. What processEvaluationWithLLM and calculateMetrics do
\* for one combination is an input: they complete, some text blocks with a
\* failed API response, or one of them throws.

MaxPrompts == 2

\* prompts[selectedTask] and modelConfigs
prompts ==
  [k \in 1..MaxPrompts |->
     [id |-> <<"prompt", k>>, name |-> <<"Prompt", k>>]]
modelConfigs ==
  <<[id |-> "model-a", name |-> "Model A"], [id |-> "model-b", name |-> "Model B"]>>

\* the sentenceId of the text blocks of the dataset
sentences == <<"s1">>

\* the error entries of the text blocks whose API response failed, in the
\* order of the blocks
RECURSIVE sentenceErrors(_, _, _, _)
sentenceErrors(failed, k, model, promptName) ==
  IF k > Len(sentences) THEN <<>>
  ELSE (IF k \in failed
        THEN <<[sentenceId |-> sentences[k], model |-> model,
                prompt |-> promptName, error |-> "Unknown error"]>>
        ELSE <<>>)
       \o sentenceErrors(failed, k + 1, model, promptName)

\* what the processing of a combination may throw
ThrownValues ==
  {[kind |-> "Error", text |-> "Unsupported model provider"],
   [kind |-> "other", text |-> "a thrown string"]}

\* the selections the interface can hold: ids of existing prompts and
\* models, each at most once, in the order they were ticked
RECURSIVE Selections(_)
Selections(ids) ==
  {<<>>} \cup UNION {{<<id>> \o rest : rest \in Selections(ids \ {id})} : id \in ids}

\* array.find(x => x.id === id): the position of the first entry, 0 for none
RECURSIVE findById(_, _, _)
findById(array, id, k) ==
  IF k > Len(array) THEN 0
  ELSE IF array[k].id = id THEN k ELSE findById(array, id, k + 1)

\* the place of the next combination at or after (p, m) whose prompt and
\* model are found; 'continue' skips the others
RECURSIVE seek(_, _)
seek(p, m) ==
  IF p > Len(selectedPrompts) THEN [end |-> TRUE, p |-> p, m |-> m]
  ELSE IF findById(prompts, selectedPrompts[p], 1) = 0 THEN seek(p + 1, 1)
  ELSE IF m > Len(modelsToUse) THEN seek(p + 1, 1)
  ELSE IF findById(modelConfigs, modelsToUse[m], 1) = 0 THEN seek(p, m + 1)
  ELSE [end |-> FALSE, p |-> p, m |-> m]

\* error instanceof Error ? error.message : 'Unknown error'
errorMessage(error) ==
  IF error.kind = "Error" THEN error.text ELSE "Unknown error"

\* the prompt of the combination that is being processed
prompt == prompts[findById(prompts, selectedPrompts[promptAt], 1)]

RunInit ==
  /\ EvaluationNotCalled
  /\ RetryNotCalled
  /\ ProcNotCalled
  /\ selectedPrompts \in Selections({prompts[k].id : k \in DOMAIN prompts}) \ {<<>>}
  /\ modelsToUse \in Selections({modelConfigs[k].id : k \in DOMAIN modelConfigs}) \ {<<>>}
  /\ promptAt = 0
  /\ modelAt = 0
  /\ runPc = "called"
  /\ results = <<>>
  /\ progressErrors = <<>>
  /\ processed = <<>>
  /\ newRun = None

\* the loops go on to the place 'next'; past the last combination the run
\* is handed to setCurrentRun
goOn(next, resultsNow) ==
  /\ promptAt' = next.p
  /\ modelAt' = next.m
  /\ IF next.end
     THEN /\ runPc' = "finished"
          /\ newRun' = [results |-> resultsNow]
     ELSE /\ runPc' = "processing"
          /\ UNCHANGED newRun

\* runEvaluation up to the first 'await processEvaluationWithLLM'
RunEvaluation ==
  /\ runPc = "called"
  /\ results' = <<>>
  /\ progressErrors' = <<>>
  /\ goOn(seek(1, 1), <<>>)
  /\ UNCHANGED <<selectedPrompts, modelsToUse, processed>>
  /\ UNCHANGED runFrame

\* the combination completes: its result is pushed and the text blocks
\* with a failed API response add their error entries
CombinationCompletes ==
  /\ runPc = "processing"
  /\ results' = Append(results,
       [promptId |-> selectedPrompts[promptAt], promptName |-> prompt.name,
        model |-> modelsToUse[modelAt]])
  /\ \E failed \in SUBSET DOMAIN sentences :
       progressErrors' = progressErrors \o
         sentenceErrors(failed, 1, modelsToUse[modelAt], prompt.name)
  /\ processed' = Append(processed,
       [promptId |-> selectedPrompts[promptAt], model |-> modelsToUse[modelAt],
        threw |-> FALSE])
  /\ goOn(seek(promptAt, modelAt + 1), results')
  /\ UNCHANGED <<selectedPrompts, modelsToUse>>
  /\ UNCHANGED runFrame

\* CombinationThrows without the inner try/catch: the outer catch ends the
\* loops
CombinationThrowsEndsRun ==
  /\ runPc = "processing"
  /\ processed' = Append(processed,
       [promptId |-> selectedPrompts[promptAt], model |-> modelsToUse[modelAt],
        threw |-> TRUE])
  /\ runPc' = "finished"
  /\ newRun' = [results |-> results]
  /\ UNCHANGED <<selectedPrompts, modelsToUse, promptAt, modelAt, results,
                 progressErrors>>
  /\ UNCHANGED runFrame

\* the processing of the combination throws: the inner catch adds one error
\* entry for all text blocks and the loop goes on
CombinationThrows ==
  /\ runPc = "processing"
  /\ \E error \in ThrownValues :
       progressErrors' = Append(progressErrors,
         [sentenceId |-> "all", model |-> modelsToUse[modelAt],
          prompt |-> prompt.name, error |-> errorMessage(error)])
  /\ processed' = Append(processed,
       [promptId |-> selectedPrompts[promptAt], model |-> modelsToUse[modelAt],
        threw |-> TRUE])
  /\ goOn(seek(promptAt, modelAt + 1), results)
  /\ UNCHANGED <<selectedPrompts, modelsToUse, results>>
  /\ UNCHANGED runFrame

RunNext ==
  \/ RunEvaluation
  \/ CombinationCompletes
  \/ CombinationThrows

RunSpec == RunInit /\ [][RunNext]_vars

\* the name of the prompt with this id
nameOf(promptId) == prompts[findById(prompts, promptId, 1)].name

\* the error entry of a combination that threw is among the errors
hasErrorEntry(combination) ==
  \E k \in DOMAIN progressErrors :
    /\ progressErrors[k].sentenceId = "all"
    /\ progressErrors[k].model = combination.model
    /\ progressErrors[k].prompt = nameOf(combination.promptId)

\* the result of a combination is among the results of the run
hasResult(run, promptId, model) ==
  \E k \in DOMAIN run.results :
    run.results[k].promptId = promptId /\ run.results[k].model = model

\* C19: every combination whose processing threw has its error entry in
\* progress.errors, and when the run ends every selected prompt x model
\* combination has been processed: it threw, or its result is in the run.
Thm_C19_ErrorDoesNotEndRun ==
  /\ \A k \in DOMAIN processed : processed[k].threw => hasErrorEntry(processed[k])
  /\ runPc = "finished" =>
       \A i \in DOMAIN selectedPrompts, j \in DOMAIN modelsToUse :
         \E k \in DOMAIN processed :
           /\ processed[k].promptId = selectedPrompts[i]
           /\ processed[k].model = modelsToUse[j]
           /\ ~processed[k].threw => hasResult(newRun, selectedPrompts[i], modelsToUse[j])

\* the first of four combinations threw and the three after it have their
\* results in the run
Witness_C19 ==
  /\ runPc = "finished"
  /\ Len(processed) = 4
  /\ processed[1].threw
  /\ hasErrorEntry(processed[1])
  /\ \A k \in 2..4 : ~processed[k].threw
  /\ Len(newRun.results) = 3

\* ---------------------------------------------------------------------
\* processEvaluationWithLLM: one extraction call per text block, each
\* through retryWithBackoff (the steps of the retry machine above), inside
\* the try/catch of the loop body.
\* ---------------------------------------------------------------------
\* the providers LLMServiceFactory.getService has a case for
SupportedProviders == {"anthropic", "openai", "google"}

\* model.provider of the configured models: the supported ones are stood
\* for by anthropic, deepseek has no case in getService
Providers == {"anthropic", "deepseek"}

\* the APIResponse callModel resolved with: a successful one with content,
\* or success = false with the error of the service
callModelResponse(value) ==
  IF value.text = "first"
  THEN [success |-> TRUE, content |-> <<"[", "\"", "a", "\"", "]">>, error |-> ""]
  ELSE [success |-> FALSE, content |-> <<>>, error |-> "HTTP 500"]

\* parseResponse and validateParsedResponse on the content: predictions
\* that validate, predictions that do not, or an exception
ParseOutcomes == {"valid", "invalid", "throws"}

\* let predictions = []; if (apiResponse.success && apiResponse.content)
\* { try { parse; validate } catch { predictions = [] } }
predictionsOf(apiResponse, parsing) ==
  IF apiResponse.success /\ apiResponse.content # <<>> /\ parsing = "valid"
  THEN <<<<"a">>>> ELSE <<>>

\* the SentenceResult of a block
sentenceResult(sentenceId, predictions, apiResponse) ==
  [sentenceId |-> sentenceId, predictions |-> predictions, apiResponse |-> apiResponse]

\* the ids of n sentences of a dataset
sentenceIds(n) == [k \in 1..n |-> k]

ProcInit ==
  /\ EvaluationNotCalled
  /\ RunNotCalled
  /\ RetryNotCalled
  /\ inputSentences \in {sentenceIds(n) : n \in 0..MaxBlocks}
  /\ provider \in Providers
  /\ sentenceAt = 0
  /\ procPc = "start"
  /\ blockResults = <<>>
  /\ settledCalls = <<>>
  /\ progressReports = <<>>

\* i++ and the loop condition: the next block, or the final progress
\* update and the return
nextSentence(reports) ==
  /\ sentenceAt' = sentenceAt + 1
  /\ IF sentenceAt' <= Len(inputSentences)
     THEN /\ procPc' = "call"
          /\ progressReports' = reports
     ELSE /\ procPc' = "returned"
          /\ progressReports' = Append(reports, Len(inputSentences))

\* const service = LLMServiceFactory.getService(model), ahead of the loop
\* and outside its try: an unsupported provider makes the call throw
GetService ==
  /\ procPc = "start"
  /\ IF provider \in SupportedProviders
     THEN nextSentence(progressReports)
     ELSE /\ procPc' = "thrown"
          /\ UNCHANGED <<sentenceAt, progressReports>>
  /\ UNCHANGED <<inputSentences, provider, blockResults, settledCalls>>
  /\ UNCHANGED <<evalVars, retryVars, callerVars, runVars>>

\* retryWithBackoff(() => service.callModel(request), 3, 1000) is called
CallWithRetry ==
  /\ procPc = "call"
  /\ procPc' = "awaitRetry"
  /\ argMaxRetries' = maxRetries
  /\ argBaseDelay' = baseDelay
  /\ attempt' = 0
  /\ retryPc' = "invoke"
  /\ invocations' = <<>>
  /\ lastError' = Unset
  /\ delays' = <<>>
  /\ retryOutcome' = settled("pending", Unset)
  /\ UNCHANGED <<inputSentences, provider, sentenceAt, blockResults, settledCalls,
                 progressReports>>
  /\ UNCHANGED <<evalVars, callerVars, runVars>>

\* retryWithBackoff resolved: the predictions are parsed, the result is
\* pushed, progress is reported, and delay(500) is awaited unless this was
\* the last block
ExtractionResolved ==
  /\ procPc = "awaitRetry"
  /\ retryPc = "done"
  /\ retryOutcome.state = "resolved"
  /\ \E parsing \in ParseOutcomes :
       LET apiResponse == callModelResponse(retryOutcome.value)
       IN  blockResults' = Append(blockResults,
             sentenceResult(inputSentences[sentenceAt],
                            predictionsOf(apiResponse, parsing), apiResponse))
  /\ settledCalls' = Append(settledCalls, retryOutcome)
  /\ progressReports' = Append(progressReports, sentenceAt)
  /\ procPc' = IF sentenceAt < Len(inputSentences) THEN "delay" ELSE "endOfBody"
  /\ UNCHANGED <<inputSentences, provider, sentenceAt>>
  /\ UNCHANGED <<evalVars, retryVars, callerVars, runVars>>

\* ExtractionRejected with the catch around the loop instead of inside it:
\* the loop is left and nothing is pushed for the block
ExtractionRejectedEndsLoop ==
  /\ procPc = "awaitRetry"
  /\ retryPc = "done"
  /\ retryOutcome.state = "rejected"
  /\ settledCalls' = Append(settledCalls, retryOutcome)
  /\ procPc' = "returned"
  /\ progressReports' = Append(progressReports, Len(inputSentences))
  /\ UNCHANGED <<inputSentences, provider, sentenceAt, blockResults>>
  /\ UNCHANGED <<evalVars, retryVars, callerVars, runVars>>

\* retryWithBackoff rejected: the catch of the loop body pushes a result
\* with no predictions and an APIResponse of success = false, reports
\* progress, and the loop goes on
ExtractionRejected ==
  /\ procPc = "awaitRetry"
  /\ retryPc = "done"
  /\ retryOutcome.state = "rejected"
  /\ blockResults' = Append(blockResults,
       sentenceResult(inputSentences[sentenceAt], <<>>,
                      [success |-> FALSE, content |-> <<>>,
                       error |-> errorMessage(retryOutcome.value)]))
  /\ settledCalls' = Append(settledCalls, retryOutcome)
  /\ procPc' = "endOfBody"
  /\ progressReports' = Append(progressReports, sentenceAt)
  /\ UNCHANGED <<inputSentences, provider, sentenceAt>>
  /\ UNCHANGED <<evalVars, retryVars, callerVars, runVars>>

\* the timer of delay(500) fires, or the catch block ends: the body of the
\* loop is over
EndOfBody ==
  /\ procPc \in {"delay", "endOfBody"}
  /\ nextSentence(progressReports)
  /\ UNCHANGED <<inputSentences, provider, blockResults, settledCalls>>
  /\ UNCHANGED <<evalVars, retryVars, callerVars, runVars>>

ProcNext ==
  \/ GetService
  \/ CallWithRetry
  \/ InvokeFn
  \/ FnResolves
  \/ FnRejects
  \/ BackoffElapsed
  \/ ExtractionResolved
  \/ ExtractionRejected
  \/ EndOfBody

ProcSpec == ProcInit /\ [][ProcNext]_vars

\* C30: processEvaluationWithLLM returns one SentenceResult per text
\* block, in the order of the blocks, whichever extraction calls fail: a
\* block whose call rejected after its retries has no predictions and an
\* APIResponse of success = false, and the blocks after it are processed.
\* (The function throws only ahead of the loop, for a provider without a
\* service.)
Thm_C30_OneResultPerBlock ==
  /\ Len(blockResults) = Len(settledCalls)
  /\ procPc \in {"call", "awaitRetry"} => Len(blockResults) = sentenceAt - 1
  /\ \A k \in DOMAIN blockResults :
       /\ blockResults[k].sentenceId = inputSentences[k]
       /\ settledCalls[k].state = "rejected" =>
            /\ blockResults[k].predictions = <<>>
            /\ blockResults[k].apiResponse.success = FALSE
  /\ procPc = "returned" => Len(blockResults) = Len(inputSentences)
  /\ procPc = "thrown" => (provider \notin SupportedProviders /\ settledCalls = <<>>)

\* two blocks: the call of the first rejected after four invocations, the
\* call of the second resolved at its first invocation with predictions
Witness_C30 ==
  /\ procPc = "returned"
  /\ Len(inputSentences) = 2
  /\ settledCalls[1].state = "rejected"
  /\ Len(delays) = 0
  /\ settledCalls[2].state = "resolved"
  /\ blockResults[2].predictions # <<>>

====
